---- MODULE Spec2Model ----
(***************************************************************************)
(* Interface monitoring: the concurrent monitoring execution engine.       *)
(*                                                                         *)
(* MonitorEngine.execute dispatches one retrying run per interface, either *)
(* inline (paced serial mode) or through a ThreadPoolExecutor, collects    *)
(* the results by iterating the futures in submission order and records    *)
(* the final figures in the global PerformanceMonitor.  Each retrying run  *)
(* is HTTPExecutor.execute_with_retry, i.e. HTTPExecutor.execute wrapped   *)
(* by the retry_on_failure decorator.                                      *)
(*                                                                         *)
(* Time is a discrete clock of seconds (now).  Response times are kept in  *)
(* milliseconds, as the code keeps them.                                   *)
(***************************************************************************)
EXTENDS Integers, Sequences, FiniteSets, TLC

\* ------------------------------------------------------------------ bounds

\* Largest batch handed to execute().
MaxInterfaces == 2

\* Largest configured concurrency (pool size).
MaxConcurrency == 2

\* Largest configured timeout, in seconds.
MaxTimeout == 2

\* Largest request_interval, in seconds (config gives ms / 1000).
MaxInterval == 1

\* Largest max_attempts of a RetryConfig (the one handed to the engine, or
\* the one a decorator is built with).
MaxCfgAttempts == 3

\* Most threads calling TokenManager.get_token.
MaxCallers == 2

\* Most get_token calls made on one TokenManager.
MaxRequests == 3

\* How far the clock runs while the TokenManager is in use, seconds.
MaxClock == 2

\* Most points recorded under one metric name.
MaxPoints == 1

\* Most alert callbacks registered with a PerformanceMonitor.
MaxCallbacks == 1

\* ---------------------------------------------------------- data model

\* Python's None for an optional string, and for an optional status code.
None == "None"
NoCode == -1

\* result.py ErrorType
HTTP_500 == "HTTP_500"
HTTP_404 == "HTTP_404"
HTTP_503 == "HTTP_503"
TIMEOUT == "TIMEOUT"
NETWORK_ERROR == "NETWORK_ERROR"
CONNECTION_ERROR == "CONNECTION_ERROR"
DNS_ERROR == "DNS_ERROR"
VALIDATION_ERROR == "VALIDATION_ERROR"
UNKNOWN_ERROR == "UNKNOWN_ERROR"

RETRYABLE_ERRORS == {TIMEOUT, NETWORK_ERROR, CONNECTION_ERROR, DNS_ERROR}

NON_RETRYABLE_ERRORS == {HTTP_500, HTTP_404, HTTP_503, VALIDATION_ERROR}

\* MonitorResult(...): the fields the engine reads or sets.  retry_count
\* is the dataclass default 0 until somebody assigns it.
MonitorResult(interface, status, status_code, response_time, error_type, error_message) ==
    [interface |-> interface, status |-> status, status_code |-> status_code,
     response_time |-> response_time, error_type |-> error_type,
     error_message |-> error_message, retry_count |-> 0]

is_success(r) == r.status = "SUCCESS"

\* A slot that holds no result yet.
NoResult == [status |-> "NONE"]

\* ---------------------------------------------------------- classification

\* parse_response as it would be without the branch for 503.
parse_response_without_503(code) ==
    IF code < 400 THEN <<"SUCCESS", code, None, None>>
    ELSE IF code = 404 THEN <<"FAILED", code, HTTP_404, "http error">>
    ELSE IF 400 <= code /\ code < 500 THEN <<"FAILED", code, VALIDATION_ERROR, "http error">>
    ELSE <<"FAILED", code, HTTP_500, "http error">>

\* parse_response as it would be if only server errors were failures.
parse_response_below_500(code) ==
    IF code < 500 THEN <<"SUCCESS", code, None, None>>
    ELSE IF code = 503 THEN <<"FAILED", code, HTTP_503, "http error">>
    ELSE <<"FAILED", code, HTTP_500, "http error">>

\* ResponseHandler.parse_response: (status, status_code, error_type, message)
parse_response(code) ==
    IF code < 400 THEN <<"SUCCESS", code, None, None>>
    ELSE IF code = 404 THEN <<"FAILED", code, HTTP_404, "http error">>
    ELSE IF code = 500 THEN <<"FAILED", code, HTTP_500, "http error">>
    ELSE IF code = 503 THEN <<"FAILED", code, HTTP_503, "http error">>
    ELSE IF 400 <= code /\ code < 500 THEN <<"FAILED", code, VALIDATION_ERROR, "http error">>
    ELSE IF code >= 500 THEN <<"FAILED", code, HTTP_500, "http error">>
    ELSE <<"FAILED", code, UNKNOWN_ERROR, "http error">>

\* ResponseHandler.handle_timeout
handle_timeout == <<"FAILED", NoCode, TIMEOUT, "request timed out">>

\* ResponseHandler.handle_network_error for a requests ConnectionError: the
\* type name contains "connection" and not "timeout".
handle_connection_error == <<"FAILED", NoCode, CONNECTION_ERROR, "connection refused">>

\* ---------------------------------------------------------- retry policy

\* RetryConfig(): the constructor defaults.
DefaultMaxAttempts == 3
DefaultBackoff == <<1, 2, 4>>

RetryConfig(max_attempts) ==
    [max_attempts |-> max_attempts,
     backoff_strategy |-> DefaultBackoff,
     retryable_errors |-> RETRYABLE_ERRORS]

\* is_retryable as it would be if every error were retried.
is_retryable_any_error(config, error_type) == error_type # None

\* RetryConfig.is_retryable
is_retryable(config, error_type) ==
    IF error_type = None THEN FALSE ELSE error_type \in config.retryable_errors

\* get_backoff_delay as it would be if an index past the last step wrapped
\* round to the first one.
get_backoff_delay_wrapping(config, attempt) ==
    IF attempt < 0 THEN 0
    ELSE config.backoff_strategy[(attempt % Len(config.backoff_strategy)) + 1]

\* RetryConfig.get_backoff_delay
get_backoff_delay(config, attempt) ==
    IF attempt < 0 THEN 0
    ELSE IF attempt < Len(config.backoff_strategy)
         THEN config.backoff_strategy[attempt + 1]
         ELSE config.backoff_strategy[Len(config.backoff_strategy)]

\* ---------------------------------------------------------- single attempt

\* What the network does to one send.  A response arrives within the
\* second it was sent in; a timeout is raised after `timeout` seconds; a
\* connection error is raised at once; "bug" is any other exception raised
\* inside the body's try block; "raise" is an exception that escapes the
\* callable (the unit tests substitute such a callable); "hang" is a send
\* that never completes (requests applies its timeout per socket read, not
\* to the whole exchange).
StatusCodes == {200, 404, 500}
ResponseMs == {2, 3}

TransportEvents ==
    [ev : {"response"}, code : StatusCodes, ms : ResponseMs]
    \cup [ev : {"timeout", "connection_error", "bug", "raise", "hang"},
          code : {NoCode}, ms : {1}]

\* str(e) of the exception the callable raises on its call number a
\* (0-based): each call raises an exception of its own.
ExcMessage(a) == <<"error in call 1", "error in call 2", "error in call 3",
                   "error in call 4", "error in call 5">>[a + 1]

BugMessage == "unexpected error"

\* How the endpoint behind an interface behaves over the sends of one run:
\* the events send number a (0-based) may meet.  "any" leaves every send
\* free; the others are the fixed behaviours a batch is made of.
Behaviours == {"up", "error_500", "down", "flaky", "broken", "stuck"}

Ev(ev) == [ev |-> ev, code |-> NoCode, ms |-> 1]

EventsFor(b, a) ==
    CASE b = "up" -> [ev : {"response"}, code : {200}, ms : ResponseMs]
      [] b = "error_500" -> {[ev |-> "response", code |-> 500, ms |-> 3]}
      [] b = "down" -> {Ev("timeout")}
      [] b = "flaky" -> IF a = 0 THEN {Ev("timeout")}
                        ELSE {[ev |-> "response", code |-> 200, ms |-> 3]}
      [] b = "broken" -> {Ev("raise")}
      [] b = "stuck" -> {Ev("hang")}
      [] OTHER -> TransportEvents

\* The outcome of calling a callable once: a returned value or an exception.
Returned(r) == [kind |-> "return", result |-> r, message |-> None]
Raised(msg) == [kind |-> "raise", result |-> NoResult, message |-> msg]

FromTuple(interface, t, response_time) ==
    MonitorResult(interface, t[1], t[2], response_time, t[3], t[4])

\* ExecuteBody as it would be without its last except clause: an
\* exception that is neither a Timeout nor a RequestException leaves the
\* body.
ExecuteBodyReraising(interface, e, tmo, a) ==
    CASE e.ev = "response" ->
           Returned(FromTuple(interface, parse_response(e.code), e.ms))
      [] e.ev = "timeout" ->
           Returned(FromTuple(interface, handle_timeout, tmo * 1000))
      [] e.ev = "connection_error" ->
           Returned(FromTuple(interface, handle_connection_error, e.ms))
      [] OTHER -> Raised(ExcMessage(a))

\* HTTPExecutor.execute, the undecorated body: one send and its classification.
ExecuteBody(interface, e, tmo, a) ==
    CASE e.ev = "response" ->
           Returned(FromTuple(interface, parse_response(e.code), e.ms))
      [] e.ev = "timeout" ->
           Returned(FromTuple(interface, handle_timeout, tmo * 1000))
      [] e.ev = "connection_error" ->
           Returned(FromTuple(interface, handle_connection_error, e.ms))
      [] e.ev = "bug" ->
           Returned(MonitorResult(interface, "FAILED", NoCode, e.ms,
                                  UNKNOWN_ERROR, BugMessage))
      [] OTHER -> Raised(ExcMessage(a))

\* Seconds a send takes before its outcome is known.
SendDuration(e, tmo) == IF e.ev = "timeout" THEN tmo ELSE 0

\* ---------------------------------------------------------- retry wrapper

\* RetryDecision as it would be if the wrapper slept after every attempt,
\* the last one included.
RetryDecisionSleepsAfterLast(config, a, o) ==
    IF o.kind = "return"
    THEN IF /\ o.result.error_type # None
            /\ is_retryable(config, o.result.error_type)
            /\ a < config.max_attempts
         THEN "sleep"
         ELSE "return"
    ELSE IF a < config.max_attempts THEN "sleep" ELSE "raise"

\* retry_on_failure.wrapper, one pass of the for loop after the callable
\* came back with outcome o on 0-based attempt a: "sleep" (sleep the backoff
\* delay and go round again), "return" (return the result) or "raise" (the
\* loop is over and last_exception is raised).
RetryDecision(config, a, o) ==
    IF o.kind = "return"
    THEN IF /\ o.result.error_type # None
            /\ is_retryable(config, o.result.error_type)
            /\ a < config.max_attempts - 1
         THEN "sleep"
         ELSE "return"
    ELSE IF a < config.max_attempts - 1 THEN "sleep" ELSE "raise"

\* WrapperEnd as it would be if the code after the loop always took its
\* `return None` branch.
WrapperEndReturnsNone(d, o, last_exc) ==
    IF d = "return" THEN o ELSE Returned(NoResult)

\* retry_on_failure.wrapper, how the call ends once RetryDecision is not
\* "sleep": the result is returned from inside the loop, or the loop is
\* over and the code after it runs with last_exception as it then is.
WrapperEnd(d, o, last_exc) ==
    IF d = "return" THEN o
    ELSE IF last_exc # None THEN Raised(last_exc)
    ELSE Returned(NoResult)

\* The configuration the decorator on HTTPExecutor.execute is built with:
\* @retry_on_failure() takes no config, so it is RetryConfig().
DecoratorConfig == RetryConfig(DefaultMaxAttempts)

\* HTTPExecutor.execute_with_retry, after self.execute(...) came back with
\* the wrapper's outcome w: an exception propagates, a result gets
\* retry_count assigned.
ExecuteWithRetry(w) ==
    IF w.kind = "raise" THEN w
    ELSE Returned([w.result EXCEPT !.retry_count = 0])

\* MonitorEngine._execute_single: any exception becomes an UNKNOWN_ERROR result.
ExecuteSingle(interface, w) ==
    IF ExecuteWithRetry(w).kind = "raise"
    THEN MonitorResult(interface, "FAILED", NoCode, 0, UNKNOWN_ERROR,
                       ExecuteWithRetry(w).message)
    ELSE ExecuteWithRetry(w).result

\* The result execute() records when future.result() raises in the collector.
CollectorMessage == "monitor execution exception"

CollectorErrorResult(interface) ==
    MonitorResult(interface, "FAILED", NoCode, 0, UNKNOWN_ERROR, CollectorMessage)

\* ---------------------------------------------------------- monitor

\* PerformanceMonitor._default_thresholds()['response_time_p95'] is 2.5;
\* values are compared in tenths so that the model stays in the integers.
P95ThresholdTenths == 25

\* PerformanceMonitor._check_alert for metric response_time_p95: the
\* severity of the alert to raise, or None.
AlertSeverity(value) ==
    IF value * 100 > P95ThresholdTenths * 12 THEN "critical"
    ELSE IF value * 10 > P95ThresholdTenths THEN "warning"
    ELSE None

\* The names execute() records under, none of which but the last has a
\* threshold in _default_thresholds().
MetricNames == {"concurrent_requests", "response_time", "success_rate",
                "total_requests", "success_count", "failed_count",
                "execution_time", "response_time_p95"}

\* ---------------------------------------------------------- sorting

\* list.sort() on numbers: ascending, repeats kept.
SortAscending(s) == SortSeq(s, LAMBDA x, y : x < y)

\* P95 as it would be if the index were rounded up, ceil(n * 0.95), and cut
\* to the last position.
P95_rounded_up(times) ==
    IF times = <<>> THEN 0
    ELSE LET sorted == SortAscending(times)
             up == (Len(sorted) * 95 + 99) \div 100
         IN  IF up < Len(sorted) THEN sorted[up + 1] ELSE sorted[Len(sorted)]

\* execute(): the P95 of the collected response times (0 when there are none).
P95(times) ==
    IF times = <<>> THEN 0
    ELSE LET sorted == SortAscending(times)
             p95_index == (Len(sorted) * 95) \div 100
         IN  IF p95_index < Len(sorted) THEN sorted[p95_index + 1]
             ELSE sorted[Len(sorted)]

\* ---------------------------------------------------------- state

InterfaceNames == <<"A", "B", "C", "D">>

VARIABLES
    interfaces,         \* the batch handed to execute()
    concurrency,        \* MonitorEngine.concurrency
    timeout,            \* MonitorEngine.timeout, seconds
    request_interval,   \* MonitorEngine.request_interval, seconds
    enable_monitoring,  \* MonitorEngine.enable_monitoring
    retry_config,       \* MonitorEngine.retry_config
    wrapper_config,     \* the config the retry_on_failure closure holds
    behaviour,          \* per position: how the endpoint behaves
    epc,                \* where the thread running execute() is
    di,                 \* position of the dispatch loop (1-based)
    ci,                 \* position of the collection loop in futures
    futures,            \* positions submitted to the pool, in order
    results,            \* execute()'s results list
    response_times,     \* execute()'s response_times list
    success_count,
    failed_count,
    waitDeadline,       \* when the current future.result(timeout=) gives up
    paceWake,           \* when the pacing sleep ends
    max_workers,        \* size of the pool created by execute()
    wpc,                \* per position: where its retrying run is
    attempt,            \* per position: the wrapper's loop variable
    attemptLog,         \* per position: what each send came back with
    sleepLog,           \* per position: the delays slept by the wrapper
    pending,            \* per position: what the send in flight will do
    due,                \* per position: when the send or the sleep ends
    last_exception,     \* per position: the wrapper's last_exception
    wrapperOutcome,     \* per position: what the wrapper handed its caller
    finished,           \* positions in the order their runs ended
    fut,                \* per position: what _execute_single returned
    now,                \* the clock, seconds
    monitorLock,        \* PerformanceMonitor._lock is held
    metrics,            \* PerformanceMonitor.metrics: points per name
    alerts,             \* PerformanceMonitor.alerts: how many
    call,               \* the method called from outside and its arguments
    ret,                \* what that call returned or raised
    cache,              \* TokenCache._cache: per service a TokenInfo or none
    stats,              \* TokenManager.stats
    refresh_lock,       \* TokenManager._refresh_lock: the thread holding it, or 0
    threads,            \* per caller: where its get_token call is, and its locals
    provider,           \* the auth provider: calls received, tokens issued
    mpc,                \* where the thread calling the PerformanceMonitor is
    alert_callbacks,    \* PerformanceMonitor.alert_callbacks: how many
    callback_calls,     \* how many times an alert callback has been invoked
    token_map,          \* the token_map argument of execute()
    dicts,              \* the dict objects holding headers, by identity
    probe,              \* one interface going through the dispatch and its run
    auto_refresh,       \* TokenManager.auto_refresh
    stop_refresh,       \* TokenManager._stop_refresh
    refresh_thread,     \* the threads start_auto_refresh created, the last being _refresh_thread
    refresh_jobs,       \* per service: its _refresh_token_internal call in the worker's pool
    cycles,             \* check cycles the workers have begun
    refreshed,          \* per service: the TokenInfo the last successful refresh returned
    worker_expected,    \* start_auto_refresh returned and stop_auto_refresh was not called since
    refresh_token_calls \* refresh_token calls made so far

vars == <<interfaces, concurrency, timeout, request_interval, enable_monitoring,
          retry_config, wrapper_config, behaviour, epc, di, ci, futures, results, response_times,
          success_count, failed_count, waitDeadline, paceWake, max_workers,
          wpc, attempt, attemptLog, sleepLog, pending, due, last_exception,
          wrapperOutcome, finished, fut, now, monitorLock, metrics, alerts,
          call, ret, cache, stats, refresh_lock, threads, provider, mpc,
          alert_callbacks, callback_calls, token_map, dicts, probe,
          auto_refresh, stop_refresh, refresh_thread, refresh_jobs, cycles,
          refreshed, worker_expected, refresh_token_calls>>

callVars == <<call, ret>>

authVars == <<cache, stats, refresh_lock, threads, provider>>

alertVars == <<mpc, alert_callbacks, callback_calls>>

probeVars == <<token_map, dicts, probe>>

autoVars == <<auto_refresh, stop_refresh, refresh_thread, refresh_jobs, cycles,
              refreshed, worker_expected, refresh_token_calls>>

serviceVars == <<authVars, alertVars, probeVars, autoVars>>

configVars == <<interfaces, concurrency, timeout, request_interval,
                enable_monitoring, retry_config, wrapper_config, behaviour>>

engineVars == <<epc, di, ci, futures, results, response_times, success_count,
                failed_count, waitDeadline, paceWake, max_workers>>

workerVars == <<wpc, attempt, attemptLog, sleepLog, pending, due,
                last_exception, wrapperOutcome, finished, fut>>

monitorVars == <<monitorLock, metrics, alerts>>

N == Len(interfaces)
Positions == 1 .. N

NoEvent == [ev |-> "none", code |-> NoCode, ms |-> 0]
NoOutcome == [kind |-> "none", result |-> NoResult, message |-> None]

\* No method is being called from outside but execute().
NoCall == [op |-> "execute"]

\* How a call stands: not returned yet, returned a value, or raised.
NotReturned == [kind |-> "pending"]
ReturnedValue(v) == [kind |-> "return", value |-> v]
RaisedError(name) == [kind |-> "raise", error |-> name]

\* The threads calling the TokenManager, and the services it has a
\* provider registered for.
Callers == 1 .. MaxCallers
Services == {"user", "admin"}

\* No TokenInfo: an absent cache entry, a get that found nothing.
NoToken == [token |-> 0, expires_at |-> 0]

\* A caller that is in no get_token call and has made none.
IdleThread == [pc |-> "idle", service |-> "user", force_refresh |-> FALSE,
               token_info |-> NoToken, result |-> "none", token |-> 0,
               provider_calls |-> 0]

\* TokenManager(config={}): an empty TokenCache, the stats at zero, the
\* lock free, no provider called yet.
InitAuth ==
    /\ cache = [s \in Services |-> NoToken]
    /\ stats = [total_requests |-> 0, cache_hits |-> 0, cache_misses |-> 0,
                refresh_count |-> 0, refresh_failures |-> 0]
    /\ refresh_lock = 0
    /\ threads = [t \in Callers |-> IdleThread]
    /\ provider = [issued |-> 0, obtain_calls |-> 0]

\* execute() called without a token_map; a token_map with the given entries.
NoTokenMap == [given |-> FALSE, entries |-> <<>>]
TokenMap(entries) == [given |-> TRUE, entries |-> entries]

\* No interface is being followed.
NoProbe == [pc |-> "none"]

InitNoProbe ==
    /\ token_map = NoTokenMap
    /\ dicts = <<>>
    /\ probe = NoProbe

\* Nothing has run yet: execute()'s locals, the runs, the clock and a
\* fresh PerformanceMonitor.
InitRest ==
    /\ di = 1
    /\ ci = 1
    /\ futures = <<>>
    /\ results = <<>>
    /\ response_times = <<>>
    /\ success_count = 0
    /\ failed_count = 0
    /\ waitDeadline = 0
    /\ paceWake = 0
    /\ max_workers = 0
    /\ attempt = [i \in Positions |-> 0]
    /\ attemptLog = [i \in Positions |-> <<>>]
    /\ sleepLog = [i \in Positions |-> <<>>]
    /\ pending = [i \in Positions |-> NoEvent]
    /\ due = [i \in Positions |-> 0]
    /\ last_exception = [i \in Positions |-> None]
    /\ wrapperOutcome = [i \in Positions |-> NoOutcome]
    /\ finished = <<>>
    /\ fut = [i \in Positions |-> NoResult]
    /\ now = 0
    /\ monitorLock = FALSE
    /\ metrics = [m \in MetricNames |-> 0]
    /\ alerts = 0
    /\ InitAuth
    /\ mpc = "idle"
    /\ alert_callbacks = 0
    /\ callback_calls = 0

\* No auto-refresh thread was ever started.
InitNoWorker ==
    /\ stop_refresh = FALSE
    /\ refresh_thread = <<>>
    /\ refresh_jobs = [s \in Services |-> "none"]
    /\ cycles = 0
    /\ refreshed = [s \in Services |-> NoToken]
    /\ worker_expected = FALSE
    /\ refresh_token_calls = 0

InitState == InitRest /\ InitNoProbe /\ InitNoWorker /\ auto_refresh = TRUE

\* MonitorEngine(config): the engine settings, then execute() is called.
InitEngine ==
    /\ concurrency \in 1 .. MaxConcurrency
    /\ timeout \in 1 .. MaxTimeout
    /\ request_interval \in 0 .. MaxInterval
    /\ enable_monitoring \in BOOLEAN
    /\ epc = "start"
    /\ wpc = [i \in Positions |-> "new"]
    /\ call = NoCall
    /\ ret = NotReturned
    /\ InitState

\* MonitorEngine() with the default RetryConfig, then execute() on a batch
\* of endpoints with fixed behaviours.
Init ==
    /\ \E n \in 0 .. MaxInterfaces : interfaces = SubSeq(InterfaceNames, 1, n)
    /\ behaviour \in [1 .. Len(interfaces) -> Behaviours]
    /\ retry_config = RetryConfig(DefaultMaxAttempts)
    /\ wrapper_config = DecoratorConfig
    /\ InitEngine

\* MonitorEngine(retry_config=RetryConfig(max_attempts=m)), then execute()
\* on one interface whose sends may each meet any event.
InitRetry ==
    /\ interfaces = SubSeq(InterfaceNames, 1, 1)
    /\ behaviour = [i \in 1 .. 1 |-> "any"]
    /\ \E m \in 1 .. MaxCfgAttempts : retry_config = RetryConfig(m)
    /\ wrapper_config = DecoratorConfig
    /\ InitEngine

\* ---------------------------------------------------------- helpers

\* PerformanceMonitor(window_size=100): each metric keeps a deque of that length.
WindowSize == 100

\* record_metric(name, ...) for every name in names, none of which has a
\* threshold: a point is appended and _check_alert returns at once.
Recorded(m, names) ==
    IF enable_monitoring
    THEN [x \in MetricNames |->
             IF x \in names /\ m[x] < WindowSize THEN m[x] + 1 ELSE m[x]]
    ELSE m

\* The mode test of the dispatch loop.
SerialMode == request_interval > 0 /\ concurrency = 1

\* Pool threads that are busy: runs taken from the queue and not finished.
Running == {i \in Positions : \E k \in 1 .. Len(futures) :
                futures[k] = i /\ wpc[i] \in {"sending", "sleeping"}}

\* What execute() does with a result it got hold of: append, collect the
\* response time, count, and record response_time and success_rate.
TakeResult(r) ==
    /\ results' = Append(results, r)
    /\ response_times' = IF r.response_time > 0
                         THEN Append(response_times, r.response_time)
                         ELSE response_times
    /\ success_count' = IF is_success(r) THEN success_count + 1 ELSE success_count
    /\ failed_count' = IF is_success(r) THEN failed_count ELSE failed_count + 1
    /\ metrics' = Recorded(metrics, {"response_time", "success_rate"})

\* ---------------------------------------------------------- the retrying run

\* Send as it would be if every submitted run got a thread of its own.
SendUnbounded(i) ==
    /\ \/ wpc[i] = "queued"
       \/ wpc[i] = "called"
       \/ wpc[i] = "sleeping" /\ now >= due[i]
    /\ \E e \in EventsFor(behaviour[i],
                           IF wpc[i] = "sleeping" THEN attempt[i] + 1 ELSE attempt[i]) :
         /\ pending' = [pending EXCEPT ![i] = e]
         /\ due' = [due EXCEPT ![i] = now + SendDuration(e, timeout)]
    /\ attempt' = [attempt EXCEPT ![i] = IF wpc[i] = "sleeping" THEN @ + 1 ELSE @]
    /\ wpc' = [wpc EXCEPT ![i] = "sending"]
    /\ UNCHANGED <<attemptLog, sleepLog, last_exception, wrapperOutcome,
                   finished, fut, now>>
    /\ UNCHANGED <<serviceVars, callVars, configVars, engineVars, monitorVars>>

\* The wrapper calls the callable: the first call of a run taken by a pool
\* thread (runs are taken in submission order, one per free thread) or
\* called inline, or the next call after a backoff sleep.
Send(i) ==
    /\ \/ /\ wpc[i] = "queued"
          /\ Cardinality(Running) < max_workers
          /\ \A j \in 1 .. i - 1 : wpc[j] # "queued"
       \/ wpc[i] = "called"
       \/ wpc[i] = "sleeping" /\ now >= due[i]
    /\ \E e \in EventsFor(behaviour[i],
                           IF wpc[i] = "sleeping" THEN attempt[i] + 1 ELSE attempt[i]) :
         /\ pending' = [pending EXCEPT ![i] = e]
         /\ due' = [due EXCEPT ![i] = now + SendDuration(e, timeout)]
    /\ attempt' = [attempt EXCEPT ![i] = IF wpc[i] = "sleeping" THEN @ + 1 ELSE @]
    /\ wpc' = [wpc EXCEPT ![i] = "sending"]
    /\ UNCHANGED <<attemptLog, sleepLog, last_exception, wrapperOutcome,
                   finished, fut, now>>
    /\ UNCHANGED <<serviceVars, callVars, configVars, engineVars, monitorVars>>

\* The callable comes back and the wrapper decides: sleep and retry, or
\* hand the outcome to execute_with_retry and so to _execute_single.
AttemptDone(i) ==
    /\ wpc[i] = "sending"
    /\ pending[i].ev # "hang"
    /\ now >= due[i]
    /\ LET o == ExecuteBody(interfaces[i], pending[i], timeout, attempt[i])
           d == RetryDecision(wrapper_config, attempt[i], o)
           delay == get_backoff_delay(wrapper_config, attempt[i])
           exc == IF o.kind = "raise" THEN o.message ELSE last_exception[i]
           w == WrapperEnd(d, o, exc)
       IN  /\ attemptLog' = [attemptLog EXCEPT ![i] = Append(@, o)]
           /\ last_exception' = [last_exception EXCEPT ![i] = exc]
           /\ IF d = "sleep"
              THEN /\ wpc' = [wpc EXCEPT ![i] = "sleeping"]
                   /\ sleepLog' = [sleepLog EXCEPT ![i] = Append(@, delay)]
                   /\ due' = [due EXCEPT ![i] = now + delay]
                   /\ UNCHANGED <<wrapperOutcome, finished, fut>>
              ELSE /\ wpc' = [wpc EXCEPT ![i] = "done"]
                   /\ wrapperOutcome' = [wrapperOutcome EXCEPT ![i] = w]
                   /\ finished' = Append(finished, i)
                   /\ fut' = [fut EXCEPT ![i] = ExecuteSingle(interfaces[i], w)]
                   /\ UNCHANGED <<sleepLog, due>>
    /\ UNCHANGED <<attempt, pending, now>>
    /\ UNCHANGED <<serviceVars, callVars, configVars, engineVars, monitorVars>>

\* ---------------------------------------------------------- execute()

\* execute() up to the dispatch loop: the empty batch returns at once.
ExecuteBegin ==
    /\ epc = "start"
    /\ IF N = 0
       THEN /\ epc' = "returned"
            /\ UNCHANGED <<max_workers, metrics>>
       ELSE /\ epc' = "dispatch"
            /\ max_workers' = concurrency
            /\ metrics' = Recorded(metrics, {"concurrent_requests"})
    /\ UNCHANGED <<di, ci, futures, results, response_times, success_count,
                   failed_count, waitDeadline, paceWake>>
    /\ UNCHANGED <<serviceVars, callVars, configVars, workerVars, now, monitorLock, alerts>>

\* Dispatch loop, parallel branch: executor.submit(self._execute_single, ...).
Submit ==
    /\ epc = "dispatch"
    /\ di <= N
    /\ ~SerialMode
    /\ wpc' = [wpc EXCEPT ![di] = "queued"]
    /\ futures' = Append(futures, di)
    /\ di' = di + 1
    /\ UNCHANGED <<epc, ci, results, response_times, success_count, failed_count,
                   waitDeadline, paceWake, max_workers>>
    /\ UNCHANGED <<attempt, attemptLog, sleepLog, pending, due, last_exception,
                   wrapperOutcome, finished, fut>>
    /\ UNCHANGED <<serviceVars, callVars, configVars, monitorVars, now>>

\* Dispatch loop, serial branch: self._execute_single(...) is called inline.
SerialCall ==
    /\ epc = "dispatch"
    /\ di <= N
    /\ SerialMode
    /\ wpc' = [wpc EXCEPT ![di] = "called"]
    /\ epc' = "serial_run"
    /\ UNCHANGED <<di, ci, futures, results, response_times, success_count,
                   failed_count, waitDeadline, paceWake, max_workers>>
    /\ UNCHANGED <<attempt, attemptLog, sleepLog, pending, due, last_exception,
                   wrapperOutcome, finished, fut>>
    /\ UNCHANGED <<serviceVars, callVars, configVars, monitorVars, now>>

\* Serial branch, after the inline call returned: the result is taken and
\* time.sleep(request_interval) starts.
SerialAppend ==
    /\ epc = "serial_run"
    /\ wpc[di] = "done"
    /\ TakeResult(fut[di])
    /\ epc' = "pacing"
    /\ paceWake' = now + request_interval
    /\ UNCHANGED <<di, ci, futures, waitDeadline, max_workers>>
    /\ UNCHANGED <<serviceVars, callVars, configVars, workerVars, now, monitorLock, alerts>>

\* PacingDone as it would be if the loop went on without sleeping.
PacingSkipped ==
    /\ epc = "pacing"
    /\ di' = di + 1
    /\ epc' = "dispatch"
    /\ UNCHANGED <<ci, futures, results, response_times, success_count,
                   failed_count, waitDeadline, paceWake, max_workers>>
    /\ UNCHANGED <<serviceVars, callVars, configVars, workerVars, monitorVars, now>>

\* The pacing sleep is over: next round of the dispatch loop.
PacingDone ==
    /\ epc = "pacing"
    /\ now >= paceWake
    /\ di' = di + 1
    /\ epc' = "dispatch"
    /\ UNCHANGED <<ci, futures, results, response_times, success_count,
                   failed_count, waitDeadline, paceWake, max_workers>>
    /\ UNCHANGED <<serviceVars, callVars, configVars, workerVars, monitorVars, now>>

\* The dispatch loop is over: collect the futures if there are any,
\* otherwise leave the with block.
DispatchDone ==
    /\ epc = "dispatch"
    /\ di > N
    /\ IF futures # <<>>
       THEN /\ epc' = "collect"
            /\ waitDeadline' = now + timeout * 2
       ELSE /\ epc' = "pool_exit"
            /\ UNCHANGED waitDeadline
    /\ UNCHANGED <<di, ci, futures, results, response_times, success_count,
                   failed_count, paceWake, max_workers>>
    /\ UNCHANGED <<serviceVars, callVars, configVars, workerVars, monitorVars, now>>

\* After one future was dealt with: wait on the next, or leave the loop.
NextFuture ==
    /\ ci' = ci + 1
    /\ waitDeadline' = now + timeout * 2
    /\ epc' = IF ci + 1 > Len(futures) THEN "pool_exit" ELSE "collect"

\* CollectResult as it would be if the collector took whichever submitted
\* run has finished instead of the one its loop is at.
CollectResultAnyFinished ==
    /\ epc = "collect"
    /\ \E k \in 1 .. Len(futures) :
         /\ wpc[futures[k]] = "done"
         /\ TakeResult(fut[futures[k]])
    /\ NextFuture
    /\ UNCHANGED <<di, futures, paceWake, max_workers>>
    /\ UNCHANGED <<serviceVars, callVars, configVars, workerVars, now, monitorLock, alerts>>

\* Collection loop: future.result(timeout=self.timeout * 2) returned.
CollectResult ==
    /\ epc = "collect"
    /\ wpc[futures[ci]] = "done"
    /\ TakeResult(fut[futures[ci]])
    /\ NextFuture
    /\ UNCHANGED <<di, futures, paceWake, max_workers>>
    /\ UNCHANGED <<serviceVars, callVars, configVars, workerVars, now, monitorLock, alerts>>

\* CollectTimeout as it would be if the except branch only counted the
\* failure and appended nothing.
CollectTimeoutNoAppend ==
    /\ epc = "collect"
    /\ wpc[futures[ci]] # "done"
    /\ now >= waitDeadline
    /\ failed_count' = failed_count + 1
    /\ NextFuture
    /\ UNCHANGED <<di, futures, results, response_times, success_count, paceWake,
                   max_workers>>
    /\ UNCHANGED <<serviceVars, callVars, configVars, workerVars, monitorVars, now>>

\* Collection loop: future.result raised (the wait timed out; the run
\* itself cannot raise out of _execute_single) and the except branch
\* records an error result.
CollectTimeout ==
    /\ epc = "collect"
    /\ wpc[futures[ci]] # "done"
    /\ now >= waitDeadline
    /\ results' = Append(results, CollectorErrorResult(interfaces[futures[ci]]))
    /\ failed_count' = failed_count + 1
    /\ NextFuture
    /\ UNCHANGED <<di, futures, response_times, success_count, paceWake, max_workers>>
    /\ UNCHANGED <<serviceVars, callVars, configVars, workerVars, monitorVars, now>>

\* The with block is left: ThreadPoolExecutor.__exit__ is shutdown(wait=True),
\* which joins the pool threads, so every submitted run has to be over.
PoolExit ==
    /\ epc = "pool_exit"
    /\ \A k \in 1 .. Len(futures) : wpc[futures[k]] = "done"
    /\ epc' = "statistics"
    /\ UNCHANGED <<di, ci, futures, results, response_times, success_count,
                   failed_count, waitDeadline, paceWake, max_workers>>
    /\ UNCHANGED <<serviceVars, callVars, configVars, workerVars, monitorVars, now>>

\* The statistics block: P95, the four unconditional record_metric calls,
\* then either record_metric('response_time_p95', ...) or the return.
Statistics ==
    /\ epc = "statistics"
    /\ metrics' = Recorded(metrics, {"total_requests", "success_count",
                                     "failed_count", "execution_time"})
    /\ epc' = IF enable_monitoring /\ P95(response_times) > 0
              THEN "record_metric" ELSE "returned"
    /\ UNCHANGED <<di, ci, futures, results, response_times, success_count,
                   failed_count, waitDeadline, paceWake, max_workers>>
    /\ UNCHANGED <<serviceVars, callVars, configVars, workerVars, now, monitorLock, alerts>>

\* `with self._lock:` on the non-reentrant threading.Lock: in record_metric,
\* and again in _check_alert once an alert has been built (after which the
\* alert is appended and the block is left).
AcquireLock ==
    /\ epc \in {"record_metric", "alert_lock"}
    /\ ~monitorLock
    /\ IF epc = "record_metric"
       THEN /\ monitorLock' = TRUE
            /\ epc' = "check_alert"
            /\ UNCHANGED alerts
       ELSE /\ alerts' = alerts + 1
            /\ monitorLock' = FALSE
            /\ epc' = "returned"
    /\ UNCHANGED <<di, ci, futures, results, response_times, success_count,
                   failed_count, waitDeadline, paceWake, max_workers>>
    /\ UNCHANGED <<serviceVars, callVars, configVars, workerVars, now, metrics>>

\* record_metric('response_time_p95', p95) holding the lock: the point is
\* appended and _check_alert runs; without an alert the lock is released
\* and execute() returns, with one _check_alert goes for the lock.
CheckAlert ==
    /\ epc = "check_alert"
    /\ metrics' = Recorded(metrics, {"response_time_p95"})
    /\ IF AlertSeverity(P95(response_times)) = None
       THEN /\ monitorLock' = FALSE
            /\ epc' = "returned"
       ELSE /\ epc' = "alert_lock"
            /\ UNCHANGED monitorLock
    /\ UNCHANGED <<di, ci, futures, results, response_times, success_count,
                   failed_count, waitDeadline, paceWake, max_workers>>
    /\ UNCHANGED <<serviceVars, callVars, configVars, workerVars, now, alerts>>

\* ---------------------------------------------------------- time

\* Everything that does not wait for the clock.
Instant ==
    \/ ExecuteBegin \/ Submit \/ SerialCall \/ SerialAppend \/ PacingDone
    \/ DispatchDone \/ CollectResult \/ CollectTimeout \/ PoolExit
    \/ Statistics \/ AcquireLock \/ CheckAlert
    \/ \E i \in Positions : Send(i) \/ AttemptDone(i)

\* The moments somebody is waiting for.
Deadlines ==
    {due[i] : i \in {j \in Positions :
                        \/ wpc[j] = "sleeping"
                        \/ wpc[j] = "sending" /\ pending[j].ev # "hang"}}
    \cup (IF epc = "collect" THEN {waitDeadline} ELSE {})
    \cup (IF epc = "pacing" THEN {paceWake} ELSE {})

\* A second passes: only while somebody waits for the clock and nothing
\* else can be done in the present second.
Tick ==
    /\ Deadlines # {}
    /\ \A d \in Deadlines : now < d
    /\ ~ENABLED Instant
    /\ now' = now + 1
    /\ UNCHANGED <<serviceVars, callVars, configVars, engineVars, workerVars, monitorVars>>

Next ==
    \/ ExecuteBegin
    \/ Submit
    \/ SerialCall
    \/ SerialAppend
    \/ PacingDone
    \/ DispatchDone
    \/ CollectResult
    \/ CollectTimeout
    \/ PoolExit
    \/ Statistics
    \/ AcquireLock
    \/ CheckAlert
    \/ \E i \in Positions : Send(i)
    \/ \E i \in Positions : AttemptDone(i)
    \/ Tick

Spec == Init /\ [][Next]_vars

SpecRetry == InitRetry /\ [][Next]_vars

\* A callable decorated with retry_on_failure(RetryConfig(max_attempts=m))
\* is called once: the wrapper alone, with no engine around it.
InitWrapper ==
    /\ interfaces = SubSeq(InterfaceNames, 1, 1)
    /\ behaviour = [i \in 1 .. 1 |-> "any"]
    /\ retry_config = RetryConfig(DefaultMaxAttempts)
    /\ \E m \in 1 .. MaxCfgAttempts : wrapper_config = RetryConfig(m)
    /\ concurrency = 1
    /\ timeout \in 1 .. MaxTimeout
    /\ request_interval = 0
    /\ enable_monitoring = FALSE
    /\ epc = "none"
    /\ wpc = [i \in 1 .. 1 |-> "called"]
    /\ call = NoCall
    /\ ret = NotReturned
    /\ InitState

NextWrapper ==
    \/ \E i \in Positions : Send(i)
    \/ \E i \in Positions : AttemptDone(i)
    \/ Tick

SpecWrapper == InitWrapper /\ [][NextWrapper]_vars

\* ---------------------------------------------------------- single calls

\* The longest backoff_strategy, the largest attempt index (either sign)
\* and the largest status code a call is made with.
MaxSteps == 3
MaxAttemptIndex == 5
MaxStatusCode == 600

\* The steps a backoff_strategy is made of.
BackoffSteps == {1, 2, 4}

\* RetryConfig(backoff_strategy=steps)
BackoffStrategies ==
    UNION {[1 .. n -> BackoffSteps] : n \in 1 .. MaxSteps}

RetryConfigWith(steps) ==
    [RetryConfig(DefaultMaxAttempts) EXCEPT !.backoff_strategy = steps]

\* The calls of RetryConfig.get_backoff_delay and
\* ResponseHandler.parse_response made from outside.
BackoffCalls ==
    [op : {"get_backoff_delay"}, backoff_strategy : BackoffStrategies,
     attempt : (0 - MaxAttemptIndex) .. MaxAttemptIndex]

ParseCalls == [op : {"parse_response"}, status_code : 100 .. MaxStatusCode]

\* No engine is running: only the call matters.
InitIdle ==
    /\ interfaces = <<>>
    /\ behaviour = <<>>
    /\ retry_config = RetryConfig(DefaultMaxAttempts)
    /\ wrapper_config = DecoratorConfig
    /\ concurrency = 1
    /\ timeout = 1
    /\ request_interval = 0
    /\ enable_monitoring = FALSE
    /\ epc = "none"
    /\ wpc = <<>>
    /\ InitState

\* config.get_backoff_delay(attempt)
CallGetBackoffDelay ==
    /\ call.op = "get_backoff_delay"
    /\ ret.kind = "pending"
    /\ ret' = ReturnedValue(get_backoff_delay(RetryConfigWith(call.backoff_strategy),
                                              call.attempt))
    /\ UNCHANGED <<serviceVars, call, configVars, engineVars, workerVars, monitorVars, now>>

\* response_handler.parse_response(response, response_time), as a
\* (status, status_code, error_type, error_message) tuple.
CallParseResponse ==
    /\ call.op = "parse_response"
    /\ ret.kind = "pending"
    /\ ret' = ReturnedValue(parse_response(call.status_code))
    /\ UNCHANGED <<serviceVars, call, configVars, engineVars, workerVars, monitorVars, now>>

\* HTTPHandler._prepare_headers.  A headers dict is a function from the
\* names it holds to their values.
HeaderNames == {"Authorization", "authorization", "Auth-Token",
                "Content-Type", "content-type", "User-Agent", "user-agent"}

\* The value the caller gave a header.
CallerValue(h) ==
    IF h \in {"Authorization", "authorization", "Auth-Token"} THEN "Basic xyz"
    ELSE "caller's value"

HeaderMaps == {[h \in D |-> CallerValue(h)] : D \in SUBSET HeaderNames}

\* token: None, the empty string, or a token.
Tokens == {None, "", "abc", "t2"}

\* f"Bearer {token}"
Bearer(token) == IF token = "abc" THEN "Bearer abc" ELSE "Bearer t2"

\* The auth_headers list of _prepare_headers, in its order.
auth_headers == <<"Authorization", "authorization", "Auth-Token">>

\* The for loop over auth_headers from position k on: the first name not
\* in the dict gets the bearer value, and the loop breaks.
RECURSIVE AddAuthHeader(_, _, _)
AddAuthHeader(result, token, k) ==
    IF k > Len(auth_headers) THEN result
    ELSE IF auth_headers[k] \notin DOMAIN result
         THEN (auth_headers[k] :> Bearer(token)) @@ result
         ELSE AddAuthHeader(result, token, k + 1)

\* _prepare_headers as it would be if the token were always written under
\* Authorization.
prepare_headers_overwriting(headers, token) ==
    LET typed == IF "Content-Type" \notin DOMAIN headers
                    /\ "content-type" \notin DOMAIN headers
                 THEN ("Content-Type" :> "application/json") @@ headers
                 ELSE headers
        authed == IF token # None /\ token # ""
                  THEN ("Authorization" :> Bearer(token)) @@ typed
                  ELSE typed
    IN  IF "User-Agent" \notin DOMAIN authed /\ "user-agent" \notin DOMAIN authed
        THEN ("User-Agent" :> "Interface-Monitor/1.0") @@ authed
        ELSE authed

prepare_headers(headers, token) ==
    LET copied == headers
        typed == IF "Content-Type" \notin DOMAIN copied
                    /\ "content-type" \notin DOMAIN copied
                 THEN ("Content-Type" :> "application/json") @@ copied
                 ELSE copied
        authed == IF token # None /\ token # ""
                  THEN AddAuthHeader(typed, token, 1)
                  ELSE typed
    IN  IF "User-Agent" \notin DOMAIN authed /\ "user-agent" \notin DOMAIN authed
        THEN ("User-Agent" :> "Interface-Monitor/1.0") @@ authed
        ELSE authed

HeaderCalls == [op : {"_prepare_headers"}, headers : HeaderMaps, token : Tokens]

\* http_handler._prepare_headers(headers, token)
CallPrepareHeaders ==
    /\ call.op = "_prepare_headers"
    /\ ret.kind = "pending"
    /\ ret' = ReturnedValue(prepare_headers(call.headers, call.token))
    /\ UNCHANGED <<serviceVars, call, configVars, engineVars, workerVars, monitorVars, now>>

\* The longest results list get_statistics is called with, and the
\* largest sample of response times the P95 is taken of.
MaxResults == 3
MaxSample == 100

\* A quotient the code computes in floating point, kept exact.
Fraction(num, den) == [num |-> num, den |-> den]

RECURSIVE SumSeq(_)
SumSeq(s) == IF s = <<>> THEN 0 ELSE Head(s) + SumSeq(Tail(s))

\* [r.response_time for r in results if r.response_time > 0]
RECURSIVE PositiveTimes(_)
PositiveTimes(rs) ==
    IF rs = <<>> THEN <<>>
    ELSE IF Head(rs).response_time > 0
         THEN <<Head(rs).response_time>> \o PositiveTimes(Tail(rs))
         ELSE PositiveTimes(Tail(rs))

\* sum(1 for r in results if r.is_success())
RECURSIVE CountSuccess(_)
CountSuccess(rs) ==
    IF rs = <<>> THEN 0
    ELSE (IF is_success(Head(rs)) THEN 1 ELSE 0) + CountSuccess(Tail(rs))

\* The error_types dict after the loop over the first k results.
RECURSIVE ErrorTypes(_, _)
ErrorTypes(rs, k) ==
    IF k = 0 THEN <<>>
    ELSE LET before == ErrorTypes(rs, k - 1)
             kind == rs[k].error_type
         IN  IF kind = None THEN before
             ELSE (kind :> (IF kind \in DOMAIN before THEN before[kind] ELSE 0) + 1)
                  @@ before

\* get_statistics as it would be if the average were taken over all results.
get_statistics_average_of_all(rs) ==
    IF rs = <<>>
    THEN [total |-> 0, success |-> 0, failed |-> 0,
          success_rate |-> Fraction(0, 1), avg_response_time |-> Fraction(0, 1),
          error_types |-> <<>>]
    ELSE [total |-> Len(rs), success |-> CountSuccess(rs),
          failed |-> Len(rs) - CountSuccess(rs),
          success_rate |-> Fraction(CountSuccess(rs) * 100, Len(rs)),
          avg_response_time |-> Fraction(SumSeq(PositiveTimes(rs)), Len(rs)),
          error_types |-> ErrorTypes(rs, Len(rs))]

\* MonitorEngine.get_statistics
get_statistics(rs) ==
    IF rs = <<>>
    THEN [total |-> 0, success |-> 0, failed |-> 0,
          success_rate |-> Fraction(0, 1), avg_response_time |-> Fraction(0, 1),
          error_types |-> <<>>]
    ELSE LET total == Len(rs)
             n_success == CountSuccess(rs)
             n_failed == total - n_success
             times == PositiveTimes(rs)
         IN  [total |-> total, success |-> n_success, failed |-> n_failed,
              success_rate |-> Fraction(n_success * 100, total),
              avg_response_time |-> IF times # <<>>
                                    THEN Fraction(SumSeq(times), Len(times))
                                    ELSE Fraction(0, 1),
              error_types |-> ErrorTypes(rs, total)]

\* The results execute() can put in its list for an interface: what
\* _execute_single makes of a send, and the collector's own result.
ExecuteResults ==
    {ExecuteSingle(InterfaceNames[1], ExecuteBody(InterfaceNames[1], e, 1, 0)) :
        e \in {x \in TransportEvents : x.ev # "hang"}}
    \cup {CollectorErrorResult(InterfaceNames[1])}

StatisticsCalls ==
    [op : {"get_statistics"},
     results : UNION {[1 .. n -> ExecuteResults] : n \in 0 .. MaxResults}]

\* engine.get_statistics(results)
CallGetStatistics ==
    /\ call.op = "get_statistics"
    /\ ret.kind = "pending"
    /\ ret' = ReturnedValue(get_statistics(call.results))
    /\ UNCHANGED <<serviceVars, call, configVars, engineVars, workerVars, monitorVars, now>>

\* Samples of response times as execute() collects them (all positive,
\* in arrival order, with repeats): n values stepping through 1 .. 53.
Sample(n, step) == [i \in 1 .. n |-> ((i * step) % 53) + 1]

P95Calls ==
    [op : {"p95"},
     response_times : {Sample(n, step) : n \in 0 .. MaxSample, step \in {1, 7, 20}}]

\* The P95 block of execute() on the response times it collected.
CallP95 ==
    /\ call.op = "p95"
    /\ ret.kind = "pending"
    /\ ret' = ReturnedValue(P95(call.response_times))
    /\ UNCHANGED <<serviceVars, call, configVars, engineVars, workerVars, monitorVars, now>>

\* ---- WebhookClient.send_message

\* Largest max_retries a WebhookClient is built with.
MaxRetries == 3

\* RetryConfig.RETRYABLE_STATUS_CODES of the notifier.
RETRYABLE_STATUS_CODES == {500, 502, 503, 504}

\* The keys of non_retryable_codes in _is_retryable_error.
non_retryable_codes ==
    (40001 .. 40250) \ {40003, 40005, 40006, 40007, 40009, 40010, 40011,
                        40012, 40047}

\* _is_retryable_error(errcode, errmsg)
is_retryable_error(errcode) == errcode \notin non_retryable_codes

\* What one session.post can come to: an exception, or a response with a
\* status code, a body that is JSON or not, and the errcode in that JSON
\* (-1 when the JSON has none).
WebhookResponses ==
    { [exc |-> "Timeout", status_code |-> 0, is_json |-> FALSE, errcode |-> 0 - 1],
      [exc |-> "ConnectionError", status_code |-> 0, is_json |-> FALSE, errcode |-> 0 - 1],
      [exc |-> None, status_code |-> 200, is_json |-> TRUE, errcode |-> 0],
      [exc |-> None, status_code |-> 200, is_json |-> TRUE, errcode |-> 40001],
      [exc |-> None, status_code |-> 200, is_json |-> TRUE, errcode |-> 45009],
      [exc |-> None, status_code |-> 503, is_json |-> TRUE, errcode |-> 0 - 1],
      [exc |-> None, status_code |-> 404, is_json |-> TRUE, errcode |-> 0 - 1],
      [exc |-> None, status_code |-> 404, is_json |-> FALSE, errcode |-> 0 - 1] }

\* PushResult.success_result / failure_result, with the number of
\* session.post calls made.
PushResult(success, retry_count, posts) ==
    [success |-> success, retry_count |-> retry_count, posts |-> posts]

\* The for loop of send_message from attempt_index on: post, response.json()
\* (which raises on a body that is not JSON), then the status and errcode
\* tests; every exception is caught and leads to the next attempt.
RECURSIVE send_message_from(_, _, _)
send_message_from(responses, max_retries, attempt_index) ==
    IF attempt_index >= max_retries
    THEN PushResult(FALSE, max_retries, attempt_index)
    ELSE LET response == responses[attempt_index + 1]
         IN  IF response.exc # None \/ ~response.is_json
             THEN send_message_from(responses, max_retries, attempt_index + 1)
             ELSE IF response.status_code = 200
             THEN IF response.errcode = 0
                  THEN PushResult(TRUE, attempt_index, attempt_index + 1)
                  ELSE IF ~is_retryable_error(response.errcode)
                  THEN PushResult(FALSE, attempt_index, attempt_index + 1)
                  ELSE send_message_from(responses, max_retries, attempt_index + 1)
             ELSE IF response.status_code \notin RETRYABLE_STATUS_CODES
                  THEN PushResult(FALSE, attempt_index, attempt_index + 1)
                  ELSE send_message_from(responses, max_retries, attempt_index + 1)

send_message(responses, max_retries) == send_message_from(responses, max_retries, 0)

\* RetryConfig.BACKOFF_STRATEGY of the notifier, seconds.
BACKOFF_STRATEGY == <<1, 2, 5>>

\* _get_backoff_time(attempt)
get_backoff_time(attempt_index) ==
    IF attempt_index < Len(BACKOFF_STRATEGY)
    THEN BACKOFF_STRATEGY[attempt_index + 1]
    ELSE BACKOFF_STRATEGY[Len(BACKOFF_STRATEGY)]

\* The time.sleep calls of send_message, one list per attempt made: a
\* response that is to be retried sleeps inside the try block (lines
\* 139-142) and again after it (155-158); an exception, raised by the post
\* or by response.json(), skips the first; a return skips both.
RECURSIVE send_message_waits(_, _, _)
send_message_waits(responses, max_retries, attempt_index) ==
    IF attempt_index >= max_retries THEN <<>>
    ELSE LET response == responses[attempt_index + 1]
             wait == IF attempt_index < max_retries - 1
                     THEN <<get_backoff_time(attempt_index)>>
                     ELSE <<>>
             rest == send_message_waits(responses, max_retries, attempt_index + 1)
         IN  IF response.exc # None \/ ~response.is_json
             THEN <<wait>> \o rest
             ELSE IF response.status_code = 200
             THEN IF response.errcode = 0 \/ ~is_retryable_error(response.errcode)
                  THEN << <<>> >>
                  ELSE <<wait \o wait>> \o rest
             ELSE IF response.status_code \notin RETRYABLE_STATUS_CODES
                  THEN << <<>> >>
                  ELSE <<wait \o wait>> \o rest

\* send_message on a client with max_retries, the posts coming to what
\* `responses` says, one entry per attempt that can be made.
WebhookCalls ==
    [op : {"send_message"}, max_retries : 0 .. MaxRetries,
     responses : UNION {[1 .. n -> WebhookResponses] : n \in 0 .. MaxRetries}]

\* client.send_message(message)
CallSendMessage ==
    /\ call.op = "send_message"
    /\ ret.kind = "pending"
    /\ ret' = [kind |-> "return",
               value |-> send_message(call.responses, call.max_retries),
               waits |-> send_message_waits(call.responses, call.max_retries, 0)]
    /\ UNCHANGED <<serviceVars, call, configVars, engineVars, workerVars, monitorVars, now>>

\* ---- ResponseHandler.handle_network_error

\* The words handle_network_error looks for.
Keywords == {"timeout", "connection", "dns", "resolve", "ssl", "certificate"}

\* An exception, as far as the classification sees it: the words its type
\* name holds and the words its message holds, both lower-cased.
Exceptions == [name_has : SUBSET Keywords, message_has : SUBSET Keywords]

\* handle_network_error(exception): (status, status_code, error_type,
\* error_message); the message is str(exception).
handle_network_error(exception) ==
    LET error_type ==
            IF "timeout" \in exception.name_has \/ "timeout" \in exception.message_has
            THEN TIMEOUT
            ELSE IF "connection" \in exception.name_has
                    \/ "connection" \in exception.message_has
            THEN CONNECTION_ERROR
            ELSE IF "dns" \in exception.name_has \/ "resolve" \in exception.message_has
            THEN DNS_ERROR
            ELSE NETWORK_ERROR
    IN  <<"FAILED", NoCode, error_type, exception.message_has>>

NetworkErrorCalls == [op : {"handle_network_error"}, exception : Exceptions]

\* handler.handle_network_error(exception)
CallHandleNetworkError ==
    /\ call.op = "handle_network_error"
    /\ ret.kind = "pending"
    /\ ret' = ReturnedValue(handle_network_error(call.exception))
    /\ UNCHANGED <<serviceVars, call, configVars, engineVars, workerVars, monitorVars, now>>

\* A response object as parse_response uses it: its status code, whether
\* reading response.headers raises, and what the body gives: nothing, JSON,
\* text that is no JSON, or an exception when response.text is read.
ResponseObjects ==
    [status_code : {200, 302, 404, 500, 503},
     headers_raise : BOOLEAN,
     body : {"empty", "json", "text", "raises"}]

\* ResponseHandler._extract_response_data: the keys of the dict it
\* returns, or the exception that leaves it.  status_code and headers are
\* read before the try block; the body is read inside it.
extract_response_data(response) ==
    IF response.headers_raise THEN RaisedError("Exception")
    ELSE ReturnedValue({"status_code", "headers"} \cup
             CASE response.body = "json" -> {"json"}
               [] response.body = "text" -> {"text"}
               [] OTHER -> {})

\* ResponseHandler.parse_response with the response data it captures: the
\* classification of the status code, unless anything inside its try
\* block raised, which its except clause turns into UNKNOWN_ERROR.
parse_response_data(response) ==
    IF extract_response_data(response).kind = "raise"
    THEN [status |-> "FAILED", status_code |-> NoCode,
          error_type |-> UNKNOWN_ERROR, response_data |-> {}]
    ELSE [status |-> parse_response(response.status_code)[1],
          status_code |-> parse_response(response.status_code)[2],
          error_type |-> parse_response(response.status_code)[3],
          response_data |-> extract_response_data(response).value]

ResponseDataCalls == [op : {"parse_response_data"}, response : ResponseObjects]

CallParseResponseData ==
    /\ call.op = "parse_response_data"
    /\ ret.kind = "pending"
    /\ ret' = ReturnedValue(parse_response_data(call.response))
    /\ UNCHANGED <<serviceVars, call, configVars, engineVars, workerVars, monitorVars, now>>

\* One call of one method with arguments from the sets above.
InitCalls ==
    /\ call \in BackoffCalls \cup ParseCalls \cup HeaderCalls
                \cup StatisticsCalls \cup P95Calls
                \cup {c \in WebhookCalls : Len(c.responses) = c.max_retries}
                \cup NetworkErrorCalls \cup ResponseDataCalls
    /\ ret = NotReturned
    /\ InitIdle

NextCalls ==
    \/ CallGetBackoffDelay
    \/ CallParseResponse
    \/ CallPrepareHeaders
    \/ CallGetStatistics
    \/ CallP95
    \/ CallSendMessage
    \/ CallHandleNetworkError
    \/ CallParseResponseData

SpecCalls == InitCalls /\ [][NextCalls]_vars

\* ---------------------------------------------------------- engine settings

\* What config['concurrency'], config['timeout'] and the arguments of
\* set_concurrency and set_timeout are drawn from.
ConcurrencyArgs == (0 - 1) .. MaxConcurrency
TimeoutArgs == (0 - 1) .. MaxTimeout

\* The arguments of optimize_for_load, and what `os.cpu_count() or 4` can be.
ExpectedInterfaces == {0 - 5, 0, 10, 35, 1000}
CpuCounts == {1, 4, 64}

Min(a, b) == IF a <= b THEN a ELSE b
Max(a, b) == IF a >= b THEN a ELSE b

\* optimal as it would be without the floor of one thread.
optimal_without_floor(expected_interfaces, cpu_count) ==
    Min(Min(expected_interfaces \div 10, cpu_count * 2), 50)

\* optimize_for_load: min(max(expected_interfaces // 10, 1), cpu_count * 2, 50)
optimal(expected_interfaces, cpu_count) ==
    Min(Min(Max(expected_interfaces \div 10, 1), cpu_count * 2), 50)

\* No MonitorEngine has been constructed yet.
InitConfig ==
    /\ interfaces = SubSeq(InterfaceNames, 1, 1)
    /\ behaviour = [i \in 1 .. 1 |-> "up"]
    /\ retry_config = RetryConfig(DefaultMaxAttempts)
    /\ wrapper_config = DecoratorConfig
    /\ concurrency = 0
    /\ timeout = 0
    /\ request_interval = 0
    /\ enable_monitoring = FALSE
    /\ epc = "unconstructed"
    /\ wpc = [i \in 1 .. 1 |-> "new"]
    /\ call = NoCall
    /\ ret = NotReturned
    /\ InitState

\* MonitorEngine(config={'concurrency': c, 'timeout': t}): only the
\* concurrency is validated.
MonitorEngineInit(c, t) ==
    /\ epc = "unconstructed"
    /\ call' = [op |-> "__init__", concurrency |-> c, timeout |-> t]
    /\ IF c <= 0
       THEN /\ ret' = RaisedError("ValueError")
            /\ UNCHANGED <<concurrency, timeout, epc>>
       ELSE /\ ret' = ReturnedValue(None)
            /\ concurrency' = c
            /\ timeout' = t
            /\ epc' = "idle"
    /\ UNCHANGED <<interfaces, request_interval, enable_monitoring, retry_config,
                   wrapper_config, behaviour>>
    /\ UNCHANGED <<di, ci, futures, results, response_times, success_count,
                   failed_count, waitDeadline, paceWake, max_workers>>
    /\ UNCHANGED <<serviceVars, workerVars, monitorVars, now>>

\* set_concurrency as it would be without its check.
set_concurrency_unchecked(count) ==
    /\ epc = "idle"
    /\ call' = [op |-> "set_concurrency", count |-> count]
    /\ ret' = ReturnedValue(None)
    /\ concurrency' = count
    /\ UNCHANGED <<interfaces, timeout, request_interval, enable_monitoring,
                   retry_config, wrapper_config, behaviour>>
    /\ UNCHANGED <<serviceVars, engineVars, workerVars, monitorVars, now>>

\* MonitorEngine.set_concurrency
set_concurrency(count) ==
    /\ epc = "idle"
    /\ call' = [op |-> "set_concurrency", count |-> count]
    /\ IF count <= 0
       THEN /\ ret' = RaisedError("ValueError")
            /\ UNCHANGED concurrency
       ELSE /\ ret' = ReturnedValue(None)
            /\ concurrency' = count
    /\ UNCHANGED <<interfaces, timeout, request_interval, enable_monitoring,
                   retry_config, wrapper_config, behaviour>>
    /\ UNCHANGED <<serviceVars, engineVars, workerVars, monitorVars, now>>

\* MonitorEngine.optimize_for_load: the optimal value goes through
\* set_concurrency and is returned.
optimize_for_load(expected_interfaces, cpu_count) ==
    /\ epc = "idle"
    /\ call' = [op |-> "optimize_for_load",
                expected_interfaces |-> expected_interfaces]
    /\ IF optimal(expected_interfaces, cpu_count) <= 0
       THEN /\ ret' = RaisedError("ValueError")
            /\ UNCHANGED concurrency
       ELSE /\ ret' = ReturnedValue(optimal(expected_interfaces, cpu_count))
            /\ concurrency' = optimal(expected_interfaces, cpu_count)
    /\ UNCHANGED <<interfaces, timeout, request_interval, enable_monitoring,
                   retry_config, wrapper_config, behaviour>>
    /\ UNCHANGED <<serviceVars, engineVars, workerVars, monitorVars, now>>

\* MonitorEngine.set_timeout
set_timeout(seconds) ==
    /\ epc = "idle"
    /\ call' = [op |-> "set_timeout", seconds |-> seconds]
    /\ IF seconds <= 0
       THEN /\ ret' = RaisedError("ValueError")
            /\ UNCHANGED timeout
       ELSE /\ ret' = ReturnedValue(None)
            /\ timeout' = seconds
    /\ UNCHANGED <<interfaces, concurrency, request_interval, enable_monitoring,
                   retry_config, wrapper_config, behaviour>>
    /\ UNCHANGED <<serviceVars, engineVars, workerVars, monitorVars, now>>

\* engine.execute(interfaces) is called: the batch starts with the
\* settings as they are.
ExecuteCall ==
    /\ epc = "idle"
    /\ epc' = "start"
    /\ call' = NoCall
    /\ ret' = NotReturned
    /\ UNCHANGED <<di, ci, futures, results, response_times, success_count,
                   failed_count, waitDeadline, paceWake, max_workers>>
    /\ UNCHANGED <<serviceVars, configVars, workerVars, monitorVars, now>>

NextConfig ==
    \/ \E c \in ConcurrencyArgs, t \in TimeoutArgs : MonitorEngineInit(c, t)
    \/ \E count \in ConcurrencyArgs : set_concurrency(count)
    \/ \E k \in ExpectedInterfaces, cpu \in CpuCounts : optimize_for_load(k, cpu)
    \/ \E seconds \in TimeoutArgs : set_timeout(seconds)
    \/ ExecuteCall

SpecConfig == InitConfig /\ [][NextConfig]_vars

\* Another thread calls set_concurrency(count), directly or at the end of
\* optimize_for_load, while execute() is in its dispatch loop: the
\* attribute the loop reads in every round is assigned, no lock is taken.
set_concurrency_during_dispatch(count) ==
    /\ epc \in {"dispatch", "serial_run", "pacing"}
    /\ count > 0
    /\ concurrency' = count
    /\ UNCHANGED <<interfaces, timeout, request_interval, enable_monitoring,
                   retry_config, wrapper_config, behaviour>>
    /\ UNCHANGED <<serviceVars, callVars, engineVars, workerVars, monitorVars, now>>

NextReconfigure ==
    \/ Next
    \/ \E count \in 1 .. MaxConcurrency : set_concurrency_during_dispatch(count)

\* execute() on a batch while another thread changes the concurrency.
SpecReconfigure == Init /\ [][NextReconfigure]_vars

\* ---------------------------------------------------------- token manager

\* DEFAULT_CONFIG['refresh_retry_times']
RefreshRetryTimes == 3

\* The lifetimes of the tokens a provider issues (cache_duration), seconds.
CacheDurations == {1, 2}

\* TokenInfo.is_expired() as it would be with `now > expiry_time`.
is_expired_after_expiry(token_info, t) == t > token_info.expires_at

\* TokenInfo.is_expired() at clock t: now >= expires_at.
is_expired(token_info, t) == t >= token_info.expires_at

\* TokenCache.get(service): what it returns ...
cache_get(c, service, t) ==
    IF c[service] = NoToken THEN NoToken
    ELSE IF is_expired(c[service], t) THEN NoToken
    ELSE c[service]

\* ... and what it leaves in the cache: an expired entry is popped.
cache_after_get(c, service, t) ==
    IF c[service] # NoToken /\ is_expired(c[service], t)
    THEN [c EXCEPT ![service] = NoToken]
    ELSE c

\* TokenCache.cleanup_expired(): the services it deletes.
expired_services(c, t) ==
    {s \in Services : c[s] # NoToken /\ is_expired(c[s], t)}

\* provider.obtain_token() / provider.refresh_token(old): a token never
\* issued before, living for ttl seconds from now.
IssuedToken(ttl) == [token |-> provider.issued + 1, expires_at |-> now + ttl]

\* Leaving `with self._refresh_lock:`.
Released(t) == IF refresh_lock = t THEN 0 ELSE refresh_lock

\* get_token entered without taking _refresh_lock.
GetTokenEnterUnlocked(t, service, force_refresh) ==
    /\ threads[t].pc = "idle"
    /\ stats.total_requests < MaxRequests
    /\ stats' = [stats EXCEPT !.total_requests = @ + 1]
    /\ threads' = [threads EXCEPT ![t] =
          [pc |-> "check_cache", service |-> service,
           force_refresh |-> force_refresh, token_info |-> NoToken,
           result |-> "none", token |-> 0, provider_calls |-> 0]]
    /\ UNCHANGED <<cache, refresh_lock, provider>>
    /\ UNCHANGED <<alertVars, probeVars, autoVars, callVars, configVars, engineVars, workerVars,
                   monitorVars, now>>

\* get_token(service, force_refresh): `with self._refresh_lock:` is entered
\* and total_requests counted.
GetTokenEnter(t, service, force_refresh) ==
    /\ threads[t].pc = "idle"
    /\ refresh_lock = 0
    /\ stats.total_requests < MaxRequests
    /\ refresh_lock' = t
    /\ stats' = [stats EXCEPT !.total_requests = @ + 1]
    /\ threads' = [threads EXCEPT ![t] =
          [pc |-> "check_cache", service |-> service,
           force_refresh |-> force_refresh, token_info |-> NoToken,
           result |-> "none", token |-> 0, provider_calls |-> 0]]
    /\ UNCHANGED <<cache, provider>>
    /\ UNCHANGED <<alertVars, probeVars, autoVars, callVars, configVars, engineVars, workerVars,
                   monitorVars, now>>

\* The cache check as it would be if a forced refresh were not counted.
CheckCacheForcedUncounted(t) ==
    /\ threads[t].pc = "check_cache"
    /\ LET th == threads[t]
           cached_token == cache_get(cache, th.service, now)
       IN  IF ~th.force_refresh /\ cached_token # NoToken
           THEN /\ cache' = cache_after_get(cache, th.service, now)
                /\ stats' = [stats EXCEPT !.cache_hits = @ + 1]
                /\ threads' = [threads EXCEPT ![t].pc = "idle",
                                              ![t].result = "cached",
                                              ![t].token = cached_token.token]
                /\ refresh_lock' = Released(t)
           ELSE /\ cache' = IF th.force_refresh THEN cache
                            ELSE cache_after_get(cache, th.service, now)
                /\ stats' = IF th.force_refresh THEN stats
                            ELSE [stats EXCEPT !.cache_misses = @ + 1]
                /\ threads' = [threads EXCEPT ![t].pc = "fetch"]
                /\ UNCHANGED refresh_lock
    /\ UNCHANGED provider
    /\ UNCHANGED <<alertVars, probeVars, autoVars, callVars, configVars, engineVars, workerVars,
                   monitorVars, now>>

\* get_token, lines 133-144: without force_refresh the cache is asked; a
\* token found is a hit and is returned; otherwise, and on a forced
\* refresh, a miss is counted.
CheckCache(t) ==
    /\ threads[t].pc = "check_cache"
    /\ LET th == threads[t]
           cached_token == cache_get(cache, th.service, now)
       IN  IF ~th.force_refresh /\ cached_token # NoToken
           THEN /\ cache' = cache_after_get(cache, th.service, now)
                /\ stats' = [stats EXCEPT !.cache_hits = @ + 1]
                /\ threads' = [threads EXCEPT ![t].pc = "idle",
                                              ![t].result = "cached",
                                              ![t].token = cached_token.token]
                /\ refresh_lock' = Released(t)
           ELSE /\ cache' = IF th.force_refresh THEN cache
                            ELSE cache_after_get(cache, th.service, now)
                /\ stats' = [stats EXCEPT !.cache_misses = @ + 1]
                /\ threads' = [threads EXCEPT ![t].pc = "fetch"]
                /\ UNCHANGED refresh_lock
    /\ UNCHANGED provider
    /\ UNCHANGED <<alertVars, probeVars, autoVars, callVars, configVars, engineVars, workerVars,
                   monitorVars, now>>

\* _obtain_token_internal(service): provider.obtain_token() gives a token
\* or raises, and the exception leaves get_token.
ObtainToken(t) ==
    \/ \E ttl \in CacheDurations :
          /\ threads' = [threads EXCEPT ![t].pc = "store",
                                        ![t].token_info = IssuedToken(ttl),
                                        ![t].provider_calls = @ + 1]
          /\ provider' = [provider EXCEPT !.issued = @ + 1,
                                          !.obtain_calls = @ + 1]
          /\ UNCHANGED <<stats, refresh_lock>>
    \/ /\ threads' = [threads EXCEPT ![t].pc = "idle",
                                     ![t].result = "TokenObtainError",
                                     ![t].provider_calls = @ + 1]
       /\ provider' = [provider EXCEPT !.obtain_calls = @ + 1]
       /\ refresh_lock' = Released(t)
       /\ UNCHANGED stats

\* The retry loop of _refresh_token_internal: `failures` attempts of
\* provider.refresh_token raise; the next one, if there is one, succeeds.
RefreshToken(t, failures) ==
    IF failures < RefreshRetryTimes
    THEN \E ttl \in CacheDurations :
            /\ threads' = [threads EXCEPT ![t].pc = "store",
                                          ![t].token_info = IssuedToken(ttl),
                                          ![t].provider_calls = @ + failures + 1]
            /\ provider' = [provider EXCEPT !.issued = @ + 1]
            /\ stats' = [stats EXCEPT !.refresh_count = @ + 1]
            /\ UNCHANGED refresh_lock
    ELSE /\ threads' = [threads EXCEPT ![t].pc = "idle",
                                       ![t].result = "TokenRefreshError",
                                       ![t].provider_calls = @ + failures]
         /\ UNCHANGED provider
         /\ stats' = [stats EXCEPT !.refresh_failures = @ + 1]
         /\ refresh_lock' = Released(t)

\* get_token, lines 147-153: _refresh_token_internal on a forced refresh
\* (which obtains when the cache holds no live token), else
\* _obtain_token_internal.
Fetch(t) ==
    /\ threads[t].pc = "fetch"
    /\ LET th == threads[t]
       IN  IF th.force_refresh
           THEN /\ cache' = cache_after_get(cache, th.service, now)
                /\ IF cache_get(cache, th.service, now) = NoToken
                   THEN ObtainToken(t)
                   ELSE \E failures \in 0 .. RefreshRetryTimes :
                           RefreshToken(t, failures)
           ELSE /\ ObtainToken(t)
                /\ UNCHANGED cache
    /\ UNCHANGED <<alertVars, probeVars, autoVars, callVars, configVars, engineVars, workerVars,
                   monitorVars, now>>

\* get_token, lines 156-158: cache.set(service, token_info), the token is
\* returned and the lock released.
Store(t) ==
    /\ threads[t].pc = "store"
    /\ cache' = [cache EXCEPT ![threads[t].service] = threads[t].token_info]
    /\ threads' = [threads EXCEPT ![t].pc = "idle",
                                  ![t].result = "fetched",
                                  ![t].token = threads[t].token_info.token,
                                  ![t].token_info = NoToken]
    /\ refresh_lock' = Released(t)
    /\ UNCHANGED <<stats, provider>>
    /\ UNCHANGED <<alertVars, probeVars, autoVars, callVars, configVars, engineVars, workerVars,
                   monitorVars, now>>

\* cache.get(service) called from outside get_token (get_token_info).
CacheGet(service) ==
    /\ call' = [op |-> "cache.get", service |-> service]
    /\ ret' = ReturnedValue(cache_get(cache, service, now))
    /\ cache' = cache_after_get(cache, service, now)
    /\ UNCHANGED <<stats, refresh_lock, threads, provider>>
    /\ UNCHANGED <<alertVars, probeVars, autoVars, configVars, engineVars, workerVars,
                   monitorVars, now>>

\* cache.cleanup_expired(), as the auto-refresh worker calls it.
cleanup_expired ==
    /\ call' = [op |-> "cleanup_expired"]
    /\ ret' = ReturnedValue(Cardinality(expired_services(cache, now)))
    /\ cache' = [s \in Services |->
                    IF s \in expired_services(cache, now) THEN NoToken
                    ELSE cache[s]]
    /\ UNCHANGED <<stats, refresh_lock, threads, provider>>
    /\ UNCHANGED <<alertVars, probeVars, autoVars, configVars, engineVars, workerVars,
                   monitorVars, now>>

\* The TokenInfo objects handed to cache.set from outside: any expiry
\* from already past to after the last tick of the clock.
TokenInfos == [token : {1, 2}, expires_at : 0 .. MaxClock + 1]

\* cache.set(service, token_info)
CacheSet(service, token_info) ==
    /\ call' = [op |-> "cache.set", service |-> service]
    /\ ret' = ReturnedValue(NoToken)
    /\ cache' = [cache EXCEPT ![service] = token_info]
    /\ UNCHANGED <<stats, refresh_lock, threads, provider>>
    /\ UNCHANGED <<alertVars, probeVars, autoVars, configVars, engineVars, workerVars,
                   monitorVars, now>>

\* datetime.now() moves on by a second.
ClockTick ==
    /\ now < MaxClock
    /\ now' = now + 1
    /\ UNCHANGED <<serviceVars, callVars, configVars, engineVars, workerVars,
                   monitorVars>>

\* A fresh TokenManager with a provider registered for every service.
InitToken ==
    /\ call = NoCall
    /\ ret = NotReturned
    /\ InitIdle

NextToken ==
    \/ \E t \in Callers, force_refresh \in BOOLEAN :
          GetTokenEnter(t, "user", force_refresh)
    \/ \E t \in Callers : CheckCache(t)
    \/ \E t \in Callers : Fetch(t)
    \/ \E t \in Callers : Store(t)
    \/ ClockTick

SpecToken == InitToken /\ [][NextToken]_vars

\* A TokenCache used on its own.
NextCache ==
    \/ \E service \in Services, token_info \in TokenInfos :
          CacheSet(service, token_info)
    \/ \E service \in Services : CacheGet(service)
    \/ cleanup_expired
    \/ ClockTick

SpecCache == InitToken /\ [][NextCache]_vars

\* ---------------------------------------------------------- auto refresh

\* How many threads start_auto_refresh creates and how many check cycles
\* the workers begin.
MaxStarts == 2
MaxCycles == 1

\* How many get_token and how many refresh_token calls are made beside
\* the worker.
MaxGetTokens == 2
MaxRefreshTokens == 1

\* TokenInfo.refresh_threshold, in ticks of the clock: the tokens here
\* live one or two ticks and are due for refresh one tick before expiry.
refresh_threshold == 1

\* TokenInfo.needs_refresh() at clock t
needs_refresh(token_info, t) == token_info.expires_at - t <= refresh_threshold

\* self._refresh_thread and self._refresh_thread.is_alive()
RefreshThreadAlive ==
    /\ refresh_thread # <<>>
    /\ refresh_thread[Len(refresh_thread)] # "exited"

autoRest == <<alertVars, probeVars, callVars, configVars, engineVars, workerVars,
              monitorVars>>

\* start_auto_refresh()
start_auto_refresh ==
    /\ IF ~auto_refresh
       THEN UNCHANGED <<stop_refresh, refresh_thread, worker_expected>>
       ELSE IF RefreshThreadAlive
       THEN /\ worker_expected' = TRUE
            /\ UNCHANGED <<stop_refresh, refresh_thread>>
       ELSE /\ Len(refresh_thread) < MaxStarts
            /\ stop_refresh' = FALSE
            /\ refresh_thread' = Append(refresh_thread, "loop")
            /\ worker_expected' = TRUE
    /\ UNCHANGED <<auto_refresh, refresh_jobs, cycles, refreshed, refresh_token_calls>>
    /\ UNCHANGED <<authVars, autoRest, now>>

\* stop_auto_refresh(): the flag is set and the thread joined for at most
\* a second, which a worker in its 60 s sleep or in a refresh outlasts.
stop_auto_refresh ==
    /\ stop_refresh' = TRUE
    /\ worker_expected' = FALSE
    /\ UNCHANGED <<auto_refresh, refresh_thread, refresh_jobs, cycles, refreshed,
                   refresh_token_calls>>
    /\ UNCHANGED <<authVars, autoRest, now>>

\* _auto_refresh_worker, thread k at `while not self._stop_refresh:`.  The
\* loop is left, or a check cycle begins: cleanup_expired(), then every
\* cached service whose token needs refresh gets a pool thread running
\* _refresh_token_internal; with none the worker goes to sleep.
WorkerLoop(k) ==
    /\ refresh_thread[k] = "loop"
    /\ IF stop_refresh
       THEN /\ refresh_thread' = [refresh_thread EXCEPT ![k] = "exited"]
            /\ UNCHANGED <<cache, refresh_jobs, cycles>>
       ELSE LET kept == [s \in Services |->
                            IF s \in expired_services(cache, now) THEN NoToken
                            ELSE cache[s]]
                services_to_refresh ==
                    {s \in Services : kept[s] # NoToken /\ needs_refresh(kept[s], now)}
            IN  /\ cycles < MaxCycles
                /\ cycles' = cycles + 1
                /\ cache' = kept
                /\ refresh_jobs' = [s \in Services |->
                                       IF s \in services_to_refresh THEN "submitted"
                                       ELSE "none"]
                /\ refresh_thread' = [refresh_thread EXCEPT ![k] =
                      IF services_to_refresh = {} THEN "sleeping" ELSE "pool"]
    /\ UNCHANGED <<auto_refresh, stop_refresh, refreshed, worker_expected,
                   refresh_token_calls>>
    /\ UNCHANGED <<stats, refresh_lock, threads, provider, autoRest, now>>

\* A pool thread enters _refresh_token_internal(service): no lock is
\* taken; the old token is read from the cache, and without one the token
\* is obtained anew.
RefreshJobBegin(service) ==
    /\ refresh_jobs[service] = "submitted"
    /\ cache' = cache_after_get(cache, service, now)
    /\ refresh_jobs' = [refresh_jobs EXCEPT ![service] =
          IF cache_get(cache, service, now) = NoToken THEN "obtaining"
          ELSE "refreshing"]
    /\ UNCHANGED <<auto_refresh, stop_refresh, refresh_thread, cycles, refreshed,
                   worker_expected, refresh_token_calls>>
    /\ UNCHANGED <<stats, refresh_lock, threads, provider, autoRest, now>>

\* The worker after a job ended: as_completed takes future.result(), which
\* is dropped, and once no job is left the with block is over and the
\* worker sleeps _refresh_interval.
AfterJob(service) ==
    [k \in DOMAIN refresh_thread |->
        IF /\ refresh_thread[k] = "pool"
           /\ \A s \in Services \ {service} : refresh_jobs[s] = "none"
        THEN "sleeping"
        ELSE refresh_thread[k]]

\* The pool thread's _refresh_token_internal(service) comes back: the
\* provider gave a new TokenInfo, which is returned to the pool and put
\* nowhere, or every attempt failed and the exception is logged.
RefreshJobDone(service) ==
    /\ refresh_jobs[service] \in {"obtaining", "refreshing"}
    /\ \/ \E ttl \in CacheDurations :
            /\ provider' = [provider EXCEPT
                              !.issued = @ + 1,
                              !.obtain_calls =
                                 IF refresh_jobs[service] = "obtaining" THEN @ + 1 ELSE @]
            /\ stats' = IF refresh_jobs[service] = "refreshing"
                        THEN [stats EXCEPT !.refresh_count = @ + 1]
                        ELSE stats
            /\ refreshed' = IF refresh_jobs[service] = "refreshing"
                            THEN [refreshed EXCEPT ![service] = IssuedToken(ttl)]
                            ELSE refreshed
       \/ /\ provider' = [provider EXCEPT
                            !.obtain_calls =
                               IF refresh_jobs[service] = "obtaining" THEN @ + 1 ELSE @]
          /\ stats' = IF refresh_jobs[service] = "refreshing"
                      THEN [stats EXCEPT !.refresh_failures = @ + 1]
                      ELSE stats
          /\ UNCHANGED refreshed
    /\ refresh_jobs' = [refresh_jobs EXCEPT ![service] = "none"]
    /\ refresh_thread' = AfterJob(service)
    /\ UNCHANGED <<auto_refresh, stop_refresh, cycles, worker_expected,
                   refresh_token_calls>>
    /\ UNCHANGED <<cache, refresh_lock, threads, autoRest, now>>

\* time.sleep(self._refresh_interval) is over.
WorkerWake(k) ==
    /\ refresh_thread[k] = "sleeping"
    /\ refresh_thread' = [refresh_thread EXCEPT ![k] = "loop"]
    /\ UNCHANGED <<auto_refresh, stop_refresh, refresh_jobs, cycles, refreshed,
                   worker_expected, refresh_token_calls>>
    /\ UNCHANGED <<authVars, autoRest, now>>

\* refresh_token(service): `with self._refresh_lock:` is entered and
\* _refresh_token_internal called, which reads the old token.
RefreshTokenEnter(t, service) ==
    /\ threads[t].pc = "idle"
    /\ refresh_lock = 0
    /\ refresh_token_calls < MaxRefreshTokens
    /\ refresh_token_calls' = refresh_token_calls + 1
    /\ refresh_lock' = t
    /\ cache' = cache_after_get(cache, service, now)
    /\ threads' = [threads EXCEPT ![t] =
          [pc |-> IF cache_get(cache, service, now) = NoToken
                  THEN "refresh_token_obtaining" ELSE "refresh_token",
           service |-> service, force_refresh |-> TRUE, token_info |-> NoToken,
           result |-> "none", token |-> 0, provider_calls |-> 0]]
    /\ UNCHANGED <<auto_refresh, stop_refresh, refresh_thread, refresh_jobs, cycles,
                   refreshed, worker_expected>>
    /\ UNCHANGED <<stats, provider, autoRest, now>>

\* refresh_token(service) comes back: True when _refresh_token_internal
\* returned a TokenInfo, which is dropped, False when it raised.
RefreshTokenDone(t) ==
    /\ threads[t].pc \in {"refresh_token", "refresh_token_obtaining"}
    /\ \/ \E ttl \in CacheDurations :
            /\ provider' = [provider EXCEPT
                              !.issued = @ + 1,
                              !.obtain_calls =
                                 IF threads[t].pc = "refresh_token" THEN @ ELSE @ + 1]
            /\ stats' = IF threads[t].pc = "refresh_token"
                        THEN [stats EXCEPT !.refresh_count = @ + 1]
                        ELSE stats
            /\ refreshed' = IF threads[t].pc = "refresh_token"
                            THEN [refreshed EXCEPT ![threads[t].service] = IssuedToken(ttl)]
                            ELSE refreshed
            /\ threads' = [threads EXCEPT ![t].pc = "idle", ![t].result = "True"]
       \/ /\ provider' = [provider EXCEPT
                            !.obtain_calls =
                               IF threads[t].pc = "refresh_token" THEN @ ELSE @ + 1]
          /\ stats' = IF threads[t].pc = "refresh_token"
                      THEN [stats EXCEPT !.refresh_failures = @ + 1]
                      ELSE stats
          /\ threads' = [threads EXCEPT ![t].pc = "idle", ![t].result = "False"]
          /\ UNCHANGED refreshed
    /\ refresh_lock' = Released(t)
    /\ UNCHANGED <<auto_refresh, stop_refresh, refresh_thread, refresh_jobs, cycles,
                   worker_expected, refresh_token_calls>>
    /\ UNCHANGED <<cache, autoRest, now>>

\* TokenManager(auto_refresh=...) with a provider registered for every
\* service; nothing has been called yet.
InitAuto ==
    /\ call = NoCall
    /\ ret = NotReturned
    /\ interfaces = <<>>
    /\ behaviour = <<>>
    /\ retry_config = RetryConfig(DefaultMaxAttempts)
    /\ wrapper_config = DecoratorConfig
    /\ concurrency = 1
    /\ timeout = 1
    /\ request_interval = 0
    /\ enable_monitoring = FALSE
    /\ epc = "none"
    /\ wpc = <<>>
    /\ InitRest
    /\ InitNoProbe
    /\ InitNoWorker
    /\ auto_refresh \in BOOLEAN

\* One thread calls get_token, another refresh_token, a third starts and
\* stops the auto refresh; the worker and its pool run beside them.
NextAuto ==
    \/ start_auto_refresh
    \/ stop_auto_refresh
    \/ \E k \in 1 .. Len(refresh_thread) : WorkerLoop(k)
    \/ \E service \in Services : RefreshJobBegin(service)
    \/ \E service \in Services : RefreshJobDone(service)
    \/ \E k \in 1 .. Len(refresh_thread) : WorkerWake(k)
    \/ /\ stats.total_requests < MaxGetTokens
       /\ \E force_refresh \in BOOLEAN : GetTokenEnter(1, "user", force_refresh)
    \/ CheckCache(1)
    \/ Fetch(1)
    \/ Store(1)
    \/ RefreshTokenEnter(2, "user")
    \/ RefreshTokenDone(2)
    \/ ClockTick

SpecAuto == InitAuto /\ [][NextAuto]_vars

\* ---------------------------------------------------------- performance monitor

\* _default_thresholds(), in tenths of the unit of each metric.
alert_thresholds ==
    [m \in {"response_time_p95", "memory_usage", "cpu_usage", "error_rate"} |->
        CASE m = "response_time_p95" -> P95ThresholdTenths
          [] m = "memory_usage" -> 1200
          [] m = "cpu_usage" -> 700
          [] m = "error_rate" -> 50]

\* The factor, in hundredths, beyond which _check_alert calls it critical.
critical_percent ==
    [m \in DOMAIN alert_thresholds |->
        CASE m = "response_time_p95" -> 120
          [] m = "memory_usage" -> 125
          [] m = "cpu_usage" -> 125
          [] m = "error_rate" -> 150]

\* _check_alert(metric_name, value) up to `if severity and message:`: the
\* severity of the alert to create, or None (value in tenths).
check_alert(metric_name, value) ==
    IF metric_name \notin DOMAIN alert_thresholds THEN None
    ELSE IF value * 100 > alert_thresholds[metric_name] * critical_percent[metric_name]
    THEN "critical"
    ELSE IF value > alert_thresholds[metric_name] THEN "warning"
    ELSE None

\* The names recorded under, one of them without a threshold, and the
\* values recorded: below, at and above the threshold, and critical.
RecordedNames == DOMAIN alert_thresholds \cup {"response_time"}
RecordedValues(metric_name) ==
    IF metric_name \in DOMAIN alert_thresholds
    THEN LET t == alert_thresholds[metric_name]
         IN  {t - 1, t, t + 1, 2 * t}
    ELSE {1, 5000}

\* len(self.metrics[metric_name]), 0 for a name never recorded.
Points(metric_name) ==
    IF metric_name \in DOMAIN metrics THEN metrics[metric_name] ELSE 0

\* monitor.record_metric(metric_name, value) is called.
RecordMetricCall(metric_name, value) ==
    /\ mpc = "idle"
    /\ Points(metric_name) < MaxPoints
    /\ call' = [op |-> "record_metric", metric_name |-> metric_name, value |-> value]
    /\ ret' = NotReturned
    /\ mpc' = "record_metric"
    /\ UNCHANGED <<authVars, probeVars, autoVars, alert_callbacks, callback_calls, configVars,
                   engineVars, workerVars, monitorVars, now>>

\* monitor.get_metric_stats(metric_name) is called.
GetMetricStatsCall(metric_name) ==
    /\ mpc = "idle"
    /\ call' = [op |-> "get_metric_stats", metric_name |-> metric_name]
    /\ ret' = NotReturned
    /\ mpc' = "get_metric_stats"
    /\ UNCHANGED <<authVars, probeVars, autoVars, alert_callbacks, callback_calls, configVars,
                   engineVars, workerVars, monitorVars, now>>

\* monitor.get_performance_summary() is called.
GetPerformanceSummaryCall ==
    /\ mpc = "idle"
    /\ call' = [op |-> "get_performance_summary"]
    /\ ret' = NotReturned
    /\ mpc' = "get_performance_summary"
    /\ UNCHANGED <<authVars, probeVars, autoVars, alert_callbacks, callback_calls, configVars,
                   engineVars, workerVars, monitorVars, now>>

\* monitor.add_alert_callback(callback)
add_alert_callback ==
    /\ mpc = "idle"
    /\ alert_callbacks < MaxCallbacks
    /\ alert_callbacks' = alert_callbacks + 1
    /\ UNCHANGED <<authVars, probeVars, autoVars, mpc, callback_calls, callVars, configVars,
                   engineVars, workerVars, monitorVars, now>>

\* `with self._lock:` on the non-reentrant threading.Lock, and the block
\* it guards up to the next `with self._lock:` or the return.  In
\* record_metric the point is appended and _check_alert runs up to its own
\* `with`; in get_performance_summary the counts are taken and the loop
\* reaches get_metric_stats when any metric exists.  A block entered while
\* the caller holds the lock already would release it on leaving, and the
\* outer block would then raise on releasing it again.
WithLock ==
    /\ mpc \in {"record_metric", "check_alert", "get_performance_summary",
                "get_metric_stats"}
    /\ ~monitorLock
    /\ CASE mpc = "record_metric" ->
              /\ metrics' = (call.metric_name :> (Points(call.metric_name) + 1)) @@ metrics
              /\ IF check_alert(call.metric_name, call.value) = None
                 THEN /\ mpc' = "idle"
                      /\ ret' = ReturnedValue(None)
                      /\ UNCHANGED monitorLock
                 ELSE /\ mpc' = "check_alert"
                      /\ monitorLock' = TRUE
                      /\ UNCHANGED ret
              /\ UNCHANGED <<alerts, callback_calls>>
         [] mpc = "check_alert" ->
              /\ alerts' = alerts + 1
              /\ callback_calls' = callback_calls + alert_callbacks
              /\ mpc' = "idle"
              /\ ret' = RaisedError("RuntimeError")
              /\ UNCHANGED <<metrics, monitorLock>>
         [] mpc = "get_performance_summary" ->
              /\ IF \A m \in DOMAIN metrics : metrics[m] = 0
                 THEN /\ mpc' = "idle"
                      /\ ret' = ReturnedValue([metrics_count |-> 0,
                                               alerts_count |-> alerts])
                      /\ UNCHANGED monitorLock
                 ELSE /\ mpc' = "get_metric_stats"
                      /\ monitorLock' = TRUE
                      /\ UNCHANGED ret
              /\ UNCHANGED <<metrics, alerts, callback_calls>>
         [] mpc = "get_metric_stats" ->
              /\ mpc' = "idle"
              /\ ret' = IF call.op = "get_metric_stats"
                        THEN ReturnedValue(Points(call.metric_name))
                        ELSE RaisedError("RuntimeError")
              /\ UNCHANGED <<metrics, alerts, callback_calls, monitorLock>>
    /\ UNCHANGED <<authVars, probeVars, autoVars, alert_callbacks, call, configVars, engineVars,
                   workerVars, now>>

\* A fresh PerformanceMonitor() with the default thresholds, called by one
\* thread.
InitMonitor ==
    /\ call = NoCall
    /\ ret = NotReturned
    /\ InitIdle

NextMonitor ==
    \/ \E metric_name \in RecordedNames :
          \E value \in RecordedValues(metric_name) :
             RecordMetricCall(metric_name, value)
    \/ \E metric_name \in RecordedNames : GetMetricStatsCall(metric_name)
    \/ GetPerformanceSummaryCall
    \/ add_alert_callback
    \/ WithLock

SpecMonitor == InitMonitor /\ [][NextMonitor]_vars

\* ---------------------------------------------------------- one interface and its token

\* The headers an interface is declared with.
ProbeHeaders ==
    {m \in HeaderMaps : DOMAIN m \subseteq {"Authorization", "authorization",
                                            "Auth-Token", "Content-Type"}}

\* The token maps execute() is called with: per service a token, an empty
\* string, or no entry.
TokenMaps ==
    {TokenMap(m) : m \in UNION {[D -> {"", "abc"}] : D \in SUBSET Services}}

\* What one send of the probe may meet.
ProbeEvents ==
    [ev : {"response"}, code : StatusCodes, ms : {2}]
    \cup {Ev("timeout"), Ev("connection_error")}

\* resolve_token as it would be if the map were indexed, token_map[service].
resolve_token_indexing(map, service) ==
    IF map.given /\ service \in DOMAIN map.entries
    THEN map.entries[service]
    ELSE "KeyError"

\* token_map.get(service) if token_map else None
resolve_token(map, service) ==
    IF map.given /\ DOMAIN map.entries # {}
    THEN IF service \in DOMAIN map.entries THEN map.entries[service] ELSE None
    ELSE None

\* execute(interfaces, token_map) with one interface, whose headers are the
\* dict object 1.
InitProbe ==
    /\ call = NoCall
    /\ ret = NotReturned
    /\ interfaces = SubSeq(InterfaceNames, 1, 1)
    /\ behaviour = [i \in 1 .. 1 |-> "any"]
    /\ retry_config = RetryConfig(DefaultMaxAttempts)
    /\ wrapper_config = DecoratorConfig
    /\ concurrency = 1
    /\ timeout = 1
    /\ request_interval = 0
    /\ enable_monitoring = FALSE
    /\ epc = "none"
    /\ wpc = [i \in 1 .. 1 |-> "new"]
    /\ InitRest
    /\ InitNoWorker
    /\ auto_refresh = TRUE
    /\ token_map \in {NoTokenMap} \cup TokenMaps
    /\ \E h \in ProbeHeaders : dicts = <<h>>
    /\ \E service \in Services :
         probe = [pc |-> "dispatch",
                  interface |-> [name |-> interfaces[1], service |-> service,
                                 headers |-> 1],
                  token |-> None, request_headers |-> 0, attempts |-> 0,
                  result |-> NoResult]

probeRest == <<call, ret, configVars, engineVars, workerVars, monitorVars, now,
               authVars, alertVars, autoVars>>

\* The dispatch loop resolves the interface's token.
ResolveToken ==
    /\ probe.pc = "dispatch"
    /\ probe' = [probe EXCEPT !.pc = "prepare",
                              !.token = resolve_token(token_map, probe.interface.service)]
    /\ UNCHANGED <<token_map, dicts, probeRest>>

\* PrepareRequest as it would be if _prepare_headers wrote into the dict
\* it was given instead of a copy.
PrepareRequestInPlace ==
    /\ probe.pc = "prepare"
    /\ dicts' = [dicts EXCEPT ![probe.interface.headers] =
                                 prepare_headers(@, probe.token)]
    /\ probe' = [probe EXCEPT !.pc = "send",
                              !.request_headers = probe.interface.headers]
    /\ UNCHANGED <<token_map, probeRest>>

\* HTTPHandler.prepare_request: _prepare_headers fills a new dict, the
\* copy of the interface's headers (or {} when they are empty), which
\* becomes the request's headers.
PrepareRequest ==
    /\ probe.pc = "prepare"
    /\ dicts' = Append(dicts, prepare_headers(dicts[probe.interface.headers],
                                              probe.token))
    /\ probe' = [probe EXCEPT !.pc = "send",
                              !.request_headers = Len(dicts) + 1]
    /\ UNCHANGED <<token_map, probeRest>>

\* requests.request(**request_params) meets e; the body classifies it and
\* the wrapper goes round again or the run ends with _execute_single's
\* result.
SendRequest ==
    /\ probe.pc = "send"
    /\ \E e \in ProbeEvents :
         LET o == ExecuteBody(probe.interface.name, e, timeout, probe.attempts)
             d == RetryDecision(wrapper_config, probe.attempts, o)
         IN  probe' = IF d = "sleep"
                      THEN [probe EXCEPT !.pc = "prepare", !.attempts = @ + 1]
                      ELSE [probe EXCEPT
                              !.pc = "done",
                              !.result = ExecuteSingle(probe.interface.name,
                                                       WrapperEnd(d, o, None))]
    /\ UNCHANGED <<token_map, dicts, probeRest>>

NextProbe ==
    \/ ResolveToken
    \/ PrepareRequest
    \/ SendRequest

SpecProbe == InitProbe /\ [][NextProbe]_vars

\* ---------------------------------------------------------- claims

\* The dispatch and collection loops are over: results is what execute()
\* is going to return.
ResultsFinal ==
    epc \in {"pool_exit", "statistics", "record_metric", "check_alert",
             "alert_lock", "returned"}

\* C1: the list execute() returns has exactly one entry per interface,
\* entry i being for interfaces[i], whatever the runs did; for the empty
\* batch it is empty, no pool was sized, nothing was submitted and nothing
\* was sent.
C1_OneResultPerInterface ==
    /\ Len(results) <= N
    /\ ResultsFinal =>
         /\ Len(results) = N
         /\ \A i \in Positions : results[i].interface = interfaces[i]
    /\ (N = 0 /\ epc = "returned") =>
         /\ results = <<>>
         /\ futures = <<>>
         /\ max_workers = 0
         /\ finished = <<>>

\* C1 witness: a batch of two has been returned, the first slot filled by
\* the collector giving up, the second by a successful run.
C1_Witness ==
    /\ epc = "returned"
    /\ N = 2
    /\ results[1].error_message = CollectorMessage
    /\ is_success(results[2])

\* C2: in parallel mode every entry of results, in whatever order the runs
\* ended, is the result of the run at the same position (or the
\* collector's error result for the interface at that position).
C2_InputOrder ==
    ~SerialMode =>
        \A k \in 1 .. Len(results) :
            /\ results[k].interface = interfaces[k]
            /\ \/ wpc[k] = "done" /\ results[k] = fut[k]
               \/ results[k] = CollectorErrorResult(interfaces[k])

\* C2 witness: the second run ended before the first, and both results
\* sit at their own positions.
C2_Witness ==
    /\ ~SerialMode
    /\ finished = <<2, 1>>
    /\ Len(results) = 2
    /\ results[1] = fut[1]
    /\ results[2] = fut[2]

\* C3 (as claimed): in the returned list an endpoint that never answers
\* in time is reported FAILED/TIMEOUT, one that answers 500 is reported
\* FAILED/HTTP_500 and one that answers 200 is reported SUCCESS, in every
\* mode.
C3_SlotHoldsRunResult ==
    epc = "returned" =>
        \A i \in Positions :
            /\ behaviour[i] = "down" =>
                 results[i].status = "FAILED" /\ results[i].error_type = TIMEOUT
            /\ behaviour[i] = "error_500" =>
                 results[i].status = "FAILED" /\ results[i].error_type = HTTP_500
            /\ behaviour[i] = "up" => results[i].status = "SUCCESS"

C5_ExecuteReturns ==
    (\A i \in Positions : behaviour[i] # "stuck") =>
        (epc = "returned" \/ ENABLED Next)

\* C6 (as claimed): once the collection loop is over execute() goes on
\* without waiting for runs that are still in flight.
C6_ExitDoesNotWait ==
    epc = "pool_exit" => ENABLED PoolExit

\* C7 (as claimed): the retry_count of a returned result is the number of
\* sends made for it minus one.
C7_RetryCountIsRetries ==
    \A i \in Positions :
        (wpc[i] = "done" /\ wrapperOutcome[i].kind = "return") =>
            fut[i].retry_count = Len(attemptLog[i]) - 1

\* An outcome the wrapper took as a reason to go round again.
RetryableOutcome(config, o) ==
    o.kind = "return" /\ o.result.error_type \in config.retryable_errors

\* C8 (as claimed): the sends made for an interface never outnumber the
\* max_attempts of the RetryConfig given to the engine, and reach it when
\* every send came back with a retryable kind.
C8_EnginePolicyApplied ==
    \A i \in Positions :
        /\ Len(attemptLog[i]) <= retry_config.max_attempts
        /\ ( /\ wpc[i] = "done"
             /\ \A k \in 1 .. Len(attemptLog[i]) :
                    RetryableOutcome(retry_config, attemptLog[i][k]) )
           => Len(attemptLog[i]) = retry_config.max_attempts

\* An outcome that is a success or an error kind outside the retryable set.
FinalOutcome(o) ==
    /\ o.kind = "return"
    /\ o.result.error_type \in {None, HTTP_404, HTTP_500, HTTP_503,
                                VALIDATION_ERROR, UNKNOWN_ERROR}

\* C9: a send that came back with a success or a non-retryable kind is the
\* last send of its run: the wrapper has returned that very outcome, it
\* slept only between the sends before it, and no send follows.
C9_NonRetryableShortCircuit ==
    \A i \in Positions :
        \A k \in 1 .. Len(attemptLog[i]) :
            FinalOutcome(attemptLog[i][k]) =>
                /\ k = Len(attemptLog[i])
                /\ wpc[i] = "done"
                /\ wrapperOutcome[i] = attemptLog[i][k]
                /\ Len(sleepLog[i]) = k - 1

\* C9 witness: the first send met a 404 and the run is over after it,
\* under a max_attempts above 1.
C9_Witness ==
    /\ wrapper_config.max_attempts > 1
    /\ wpc[1] = "done"
    /\ Len(attemptLog[1]) = 1
    /\ attemptLog[1][1].kind = "return"
    /\ attemptLog[1][1].result.error_type = HTTP_404

\* C10 (as claimed): the wrapper always hands its caller the outcome of
\* the last attempt as a return value.
C10_LastOutcomeReturned ==
    \A i \in Positions :
        wpc[i] = "done" =>
            /\ wrapperOutcome[i].kind = "return"
            /\ wrapperOutcome[i].result # NoResult
            /\ wrapperOutcome[i].result = attemptLog[i][Len(attemptLog[i])].result

\* C10 (amended): the call of the wrapper ends as the last attempt made
\* ended: its result is returned, or its exception is raised to the
\* caller; the wrapper never returns None and never ends with an earlier
\* attempt's outcome.
C10_LastOutcomeHandedOn ==
    \A i \in Positions :
        wpc[i] = "done" =>
            /\ wrapperOutcome[i] = attemptLog[i][Len(attemptLog[i])]
            /\ wrapperOutcome[i].kind = "return" => wrapperOutcome[i].result # NoResult
            /\ wrapperOutcome[i].kind = "raise" =>
                 wrapperOutcome[i].message = ExcMessage(Len(attemptLog[i]) - 1)

\* C10 witness: every attempt raised and the wrapper has raised the
\* exception of the last one.
C10_Witness ==
    /\ wpc[1] = "done"
    /\ Len(attemptLog[1]) = wrapper_config.max_attempts
    /\ wrapper_config.max_attempts > 1
    /\ \A k \in 1 .. Len(attemptLog[1]) : attemptLog[1][k].kind = "raise"
    /\ wrapperOutcome[1].kind = "raise"

\* C11: get_backoff_delay(i) is 0 for i < 0 and the step at position
\* min(i, len - 1) for i >= 0, so it is one of the configured steps and
\* never past the last one; with [1, 2, 4] it is 1, 2, 4 and then 4.
C11_BackoffClamped ==
    (call.op = "get_backoff_delay" /\ ret.kind = "return") =>
        LET steps == call.backoff_strategy
            i == call.attempt
            clamped == IF i < Len(steps) - 1 THEN i ELSE Len(steps) - 1
        IN  /\ i < 0 => ret.value = 0
            /\ i >= 0 => ret.value = steps[clamped + 1]
            /\ (i >= Len(steps) - 1) => ret.value = steps[Len(steps)]
            /\ (steps = <<1, 2, 4>> /\ i >= 0) =>
                 ret.value = IF i = 0 THEN 1 ELSE IF i = 1 THEN 2 ELSE 4

\* C11 witness: [1, 2, 4] asked for the delay of attempt 5 gives 4.
C11_Witness ==
    /\ call.op = "get_backoff_delay"
    /\ call.backoff_strategy = <<1, 2, 4>>
    /\ call.attempt = 5
    /\ ret.kind = "return"
    /\ ret.value = 4

\* C12: parse_response gives a status code below 400 SUCCESS with no error
\* type, 404 HTTP_404, 500 HTTP_500, 503 HTTP_503, any other 4xx
\* VALIDATION_ERROR and any other code from 500 on HTTP_500; all but the
\* first are FAILED, and the status code is kept.
C12_Classification ==
    (call.op = "parse_response" /\ ret.kind = "return") =>
        LET c == call.status_code
            expected == IF c < 400 THEN None
                        ELSE IF c = 404 THEN HTTP_404
                        ELSE IF c = 500 THEN HTTP_500
                        ELSE IF c = 503 THEN HTTP_503
                        ELSE IF c <= 499 THEN VALIDATION_ERROR
                        ELSE HTTP_500
        IN  /\ ret.value[1] = IF c < 400 THEN "SUCCESS" ELSE "FAILED"
            /\ ret.value[2] = c
            /\ ret.value[3] = expected

\* C12 witness: 503 has been classified, as HTTP_503.
C12_Witness ==
    /\ call.op = "parse_response"
    /\ call.status_code = 503
    /\ ret.kind = "return"
    /\ ret.value[3] = HTTP_503

\* status is SUCCESS iff there is no error type iff there is a status code
\* and it is below 400.
StatusConsistent(r) ==
    /\ (r.status = "SUCCESS") <=> (r.error_type = None)
    /\ (r.error_type = None) <=> (r.status_code # NoCode /\ r.status_code < 400)

\* C13: every result in execute()'s list, and every result a run ended
\* with, has status SUCCESS iff error_type is None iff its status code is
\* present and below 400.
C13_StatusConsistent ==
    /\ \A k \in 1 .. Len(results) : StatusConsistent(results[k])
    /\ \A i \in Positions : wpc[i] = "done" => StatusConsistent(fut[i])

\* C13 witness: execute() has returned the collector's own result for an
\* interface whose run ended with a TIMEOUT result.
C13_Witness ==
    /\ epc = "returned"
    /\ Len(results) = 1
    /\ results[1] = CollectorErrorResult(interfaces[1])
    /\ fut[1].error_type = TIMEOUT

\* C14 (as claimed): with an Authorization header given and a non-empty
\* token, the built headers keep that value and hold no authorization or
\* Auth-Token header the caller did not give.
C14_NoSecondAuthHeader ==
    ( /\ call.op = "_prepare_headers"
      /\ ret.kind = "return"
      /\ "Authorization" \in DOMAIN call.headers
      /\ call.token \notin {None, ""} )
    => /\ ret.value["Authorization"] = call.headers["Authorization"]
       /\ \A h \in {"authorization", "Auth-Token"} :
              h \in DOMAIN ret.value =>
                  (h \in DOMAIN call.headers /\ ret.value[h] = call.headers[h])

\* Sum of the positive response times among the first k results.
RECURSIVE PositiveTimeSum(_, _)
PositiveTimeSum(rs, k) ==
    IF k = 0 THEN 0
    ELSE PositiveTimeSum(rs, k - 1)
         + (IF rs[k].response_time > 0 THEN rs[k].response_time ELSE 0)

\* C19: get_statistics gives total = len(results), success = the number of
\* SUCCESS results, failed = total - success, success_rate =
\* success / total * 100 (0 for the empty list), the average response time
\* over the results with a positive one (0 when there is none), and for
\* each error kind the number of results carrying it; these numbers sum to
\* failed.
C19_Statistics ==
    (call.op = "get_statistics" /\ ret.kind = "return") =>
        LET rs == call.results
            st == ret.value
            Idx == 1 .. Len(rs)
            succ == Cardinality({i \in Idx : rs[i].status = "SUCCESS"})
            timed == Cardinality({i \in Idx : rs[i].response_time > 0})
            kinds == {rs[i].error_type : i \in Idx} \ {None}
        IN  /\ st.total = Len(rs)
            /\ st.success = succ
            /\ st.failed = st.total - succ
            /\ st.success_rate.den > 0
            /\ st.success_rate.num * (IF Len(rs) = 0 THEN 1 ELSE Len(rs))
                 = (succ * 100) * st.success_rate.den
            /\ st.avg_response_time.den > 0
            /\ st.avg_response_time.num * (IF timed = 0 THEN 1 ELSE timed)
                 = PositiveTimeSum(rs, Len(rs)) * st.avg_response_time.den
            /\ DOMAIN st.error_types = kinds
            /\ \A k \in kinds :
                   st.error_types[k] = Cardinality({i \in Idx : rs[i].error_type = k})
            /\ Cardinality({i \in Idx : rs[i].error_type # None}) = st.failed

\* C19 witness: three results, one of them a success and one without a
\* response time, have been summarised.
C19_Witness ==
    /\ call.op = "get_statistics"
    /\ ret.kind = "return"
    /\ Len(call.results) = 3
    /\ ret.value.success = 1
    /\ ret.value.failed = 2
    /\ ret.value.avg_response_time.den = 2
    /\ UNKNOWN_ERROR \in DOMAIN ret.value.error_types

C15_ConcurrencyPositive ==
    /\ [](epc # "unconstructed" => concurrency > 0)
    /\ []((call.op = "__init__" /\ call.concurrency <= 0) =>
              (ret.kind = "raise" /\ epc = "unconstructed"))
    /\ []((call.op = "set_concurrency" /\ call.count <= 0) => ret.kind = "raise")
    /\ [][\A n \in ConcurrencyArgs :
              (n <= 0 /\ set_concurrency(n)) => concurrency' = concurrency]_vars

\* C15 witness: set_concurrency(0) has raised on an engine whose
\* concurrency optimize_for_load had set to 8.
C15_Witness ==
    /\ epc = "idle"
    /\ call.op = "set_concurrency"
    /\ call.count = 0
    /\ ret.kind = "raise"
    /\ concurrency = 8

\* C16 (as claimed): the constructor raises for timeout <= 0, so that an
\* engine that exists, and one that runs a batch, has timeout > 0.
C16_TimeoutPositive ==
    /\ (call.op = "__init__" /\ call.timeout <= 0) => ret.kind = "raise"
    /\ epc # "unconstructed" => timeout > 0

C18_PoolBound ==
    ~SerialMode =>
        /\ Cardinality({i \in Positions : wpc[i] \in {"sending", "sleeping"}})
             <= concurrency
        /\ epc = "dispatch" => (now = 0 /\ results = <<>>)
        /\ epc \in {"collect", "pool_exit", "statistics", "returned"} =>
             Len(futures) = N

\* C18 witness: with one pool thread the scheduler has given up on the
\* first run, which still holds the thread, and the second is still queued.
C18_Witness ==
    /\ ~SerialMode
    /\ concurrency = 1
    /\ N = 2
    /\ epc = "collect"
    /\ ci = 2
    /\ results[1].error_message = CollectorMessage
    /\ wpc[1] \in {"sending", "sleeping"}
    /\ wpc[2] = "queued"

CalledOnceEach ==
    /\ stats.total_requests = MaxCallers
    /\ \A t \in Callers :
          /\ threads[t].pc = "idle"
          /\ threads[t].service = "user"
          /\ ~threads[t].force_refresh
          /\ threads[t].result \in {"cached", "fetched"}
    /\ \A d \in CacheDurations : now < d

\* C22: when every thread calls get_token(service) once on an empty cache,
\* all within the lifetime of a token and with the provider answering, then
\* obtain_token has been invoked exactly once, every thread has received
\* the same token, cache_misses is 1 and cache_hits is the number of
\* callers minus one.
C22_ObtainedOnce ==
    CalledOnceEach =>
        /\ provider.obtain_calls = 1
        /\ \A t, u \in Callers : threads[t].token = threads[u].token
        /\ stats.cache_misses = 1
        /\ stats.cache_hits = MaxCallers - 1

C22_Witness ==
    /\ CalledOnceEach
    /\ provider.obtain_calls = 1
    /\ stats.cache_hits = MaxCallers - 1
    /\ \E t, u \in Callers :
          /\ threads[t].result = "fetched"
          /\ threads[u].result = "cached"
          /\ threads[u].token = threads[t].token

\* The entries of the cache whose expires_at is not after the clock.
ExpiredEntries == {s \in Services : cache[s] # NoToken /\ cache[s].expires_at <= now}

\* C23: TokenCache.get(service) never returns a token whose expires_at <=
\* now: an expired entry is removed by the get and None is returned, a live
\* entry is returned and stays; cleanup_expired removes exactly the expired
\* entries, returns their count and leaves every other entry in place.
C23_NoExpiredToken ==
    /\ [][\A service \in Services : CacheGet(service) =>
             /\ ret'.value # NoToken => ret'.value.expires_at > now
             /\ IF service \in ExpiredEntries
                THEN ret'.value = NoToken /\ cache'[service] = NoToken
                ELSE ret'.value = cache[service] /\ cache'[service] = cache[service]
             /\ \A other \in Services \ {service} : cache'[other] = cache[other]]_vars
    /\ [][cleanup_expired =>
             /\ ret'.value = Cardinality(ExpiredEntries)
             /\ \A s \in Services :
                   cache'[s] = IF s \in ExpiredEntries THEN NoToken ELSE cache[s]]_vars

C23_Witness ==
    /\ call.op = "cleanup_expired"
    /\ ret.value = 1
    /\ now >= 1
    /\ ExpiredEntries = {}
    /\ cache["user"] = NoToken
    /\ cache["admin"] # NoToken

\* C24: whenever no get_token call is under way, total_requests ==
\* cache_hits + cache_misses, whether the calls hit the cache, obtained,
\* refreshed or raised; a call answered from the cache has not called the
\* provider, and a forced refresh counts one miss and no hit.
C24_RequestsAccounted ==
    /\ []((\A t \in Callers : threads[t].pc = "idle") =>
             stats.total_requests = stats.cache_hits + stats.cache_misses)
    /\ [](\A t \in Callers :
             threads[t].result = "cached" => threads[t].provider_calls = 0)
    /\ [][stats'.cache_hits # stats.cache_hits => provider' = provider]_vars
    /\ [][\A t \in Callers :
             (/\ threads[t].pc = "check_cache"
              /\ threads[t].force_refresh
              /\ threads'[t].pc # "check_cache") =>
                 /\ stats'.cache_misses = stats.cache_misses + 1
                 /\ stats'.cache_hits = stats.cache_hits]_vars

C24_Witness ==
    /\ \A t \in Callers : threads[t].pc = "idle"
    /\ stats.cache_hits = 1
    /\ stats.cache_misses = 2
    /\ stats.total_requests = 3
    /\ \E t \in Callers :
          /\ threads[t].force_refresh
          /\ threads[t].result = "TokenRefreshError"
          /\ threads[t].provider_calls = RefreshRetryTimes

\* A post that succeeded: HTTP 200 with errcode 0.
PostSucceeded(response) ==
    response.exc = None /\ response.status_code = 200 /\ response.errcode = 0

\* A post that came to a non-retryable API error code or a non-retryable
\* HTTP status.
PostNotRetryable(response) ==
    /\ response.exc = None
    /\ \/ response.status_code = 200 /\ response.errcode \in non_retryable_codes
       \/ response.status_code # 200 /\ response.status_code \notin RETRYABLE_STATUS_CODES

\* C25 (as claimed): send_message never raises and posts at most
\* max_retries times; it stops at the first attempt that succeeds, with
\* success and retry_count the number of failed attempts before it, or at
\* the first attempt that meets a non-retryable API error code or HTTP
\* status, with failure and retry_count that attempt's index; after
\* max_retries failed attempts it returns failure with retry_count
\* max_retries.
C25_SendMessageStops ==
    (call.op = "send_message" /\ ret.kind # "pending") =>
        /\ ret.kind = "return"
        /\ ret.value.posts <= call.max_retries
        /\ LET stops == {k \in 1 .. call.max_retries :
                            \/ PostSucceeded(call.responses[k])
                            \/ PostNotRetryable(call.responses[k])}
           IN  IF stops = {}
               THEN /\ ~ret.value.success
                    /\ ret.value.retry_count = call.max_retries
                    /\ ret.value.posts = call.max_retries
               ELSE LET first == CHOOSE k \in stops : \A j \in stops : k <= j
                    IN  /\ ret.value.success = PostSucceeded(call.responses[first])
                        /\ ret.value.retry_count = first - 1
                        /\ ret.value.posts = first

\* What the claim makes of an exception: the words count wherever they
\* are, in the type name or in the message.
Mentions(exception, words) ==
    (exception.name_has \cup exception.message_has) \cap words # {}

\* C29 (as claimed): handle_network_error gives TIMEOUT if the type name or
\* the message holds "timeout"; else CONNECTION_ERROR if either holds
\* "connection"; else DNS_ERROR if either holds "dns" or "resolve";
\* otherwise NETWORK_ERROR; the status is FAILED and there is no status
\* code.
C29_TransportErrorKind ==
    (call.op = "handle_network_error" /\ ret.kind = "return") =>
        /\ ret.value[1] = "FAILED"
        /\ ret.value[2] = NoCode
        /\ ret.value[3] =
              IF Mentions(call.exception, {"timeout"}) THEN TIMEOUT
              ELSE IF Mentions(call.exception, {"connection"}) THEN CONNECTION_ERROR
              ELSE IF Mentions(call.exception, {"dns", "resolve"}) THEN DNS_ERROR
              ELSE NETWORK_ERROR

\* The authentication headers the call added to the caller's headers.
AddedAuthHeaders ==
    {h \in {"Authorization", "authorization", "Auth-Token"} :
        h \in DOMAIN ret.value /\ h \notin DOMAIN call.headers}

\* C30: _prepare_headers leaves every header of the caller with the
\* caller's value; with a non-empty token the bearer value is added under
\* the first of Authorization, authorization, Auth-Token that the caller
\* did not give, and under no other of them; with an empty or absent token
\* none of the three is added.
C30_HeadersKept ==
    (call.op = "_prepare_headers" /\ ret.kind = "return") =>
        /\ \A h \in DOMAIN call.headers :
              h \in DOMAIN ret.value /\ ret.value[h] = call.headers[h]
        /\ Cardinality(AddedAuthHeaders) <= 1
        /\ call.token \in {None, ""} => AddedAuthHeaders = {}
        /\ call.token \notin {None, ""} =>
              \A k \in 1 .. 3 :
                 LET names == <<"Authorization", "authorization", "Auth-Token">>
                 IN  names[k] \in AddedAuthHeaders <=>
                         /\ names[k] \notin DOMAIN call.headers
                         /\ \A j \in 1 .. k - 1 : names[j] \in DOMAIN call.headers
        /\ \A h \in AddedAuthHeaders :
              ret.value[h] = (IF call.token = "abc" THEN "Bearer abc" ELSE "Bearer t2")

C30_Witness ==
    /\ call.op = "_prepare_headers"
    /\ ret.kind = "return"
    /\ call.token = "t2"
    /\ DOMAIN call.headers = {"Authorization", "authorization"}
    /\ ret.value["Authorization"] = "Basic xyz"
    /\ ret.value["authorization"] = "Basic xyz"
    /\ ret.value["Auth-Token"] = "Bearer t2"

\* An attempt that came back as a TIMEOUT result.
TimedOut(o) == o.kind = "return" /\ o.result.error_type = TIMEOUT

\* C28: the wrapper sleeps only between two attempts: once before every
\* attempt but the first, for the backoff step of the attempt before (the
\* last step when the steps run out), and never after the last attempt;
\* with max_attempts 3, steps [1, 2, 4] and three TIMEOUTs the sleeps are
\* 1 then 2.
C28_SleepsBetweenAttempts ==
    \A i \in Positions :
        LET steps == wrapper_config.backoff_strategy
            made == Len(attemptLog[i])
            slept == sleepLog[i]
        IN  /\ Len(slept) = IF wpc[i] = "done" THEN made - 1 ELSE made
            /\ Len(slept) <= wrapper_config.max_attempts - 1
            /\ \A k \in 1 .. Len(slept) :
                  slept[k] = steps[IF k <= Len(steps) THEN k ELSE Len(steps)]
            /\ (/\ wpc[i] = "done"
                /\ wrapper_config.max_attempts = 3
                /\ steps = <<1, 2, 4>>
                /\ \A k \in 1 .. made : TimedOut(attemptLog[i][k])) =>
                   slept = <<1, 2>>

C28_Witness ==
    /\ wpc[1] = "done"
    /\ wrapper_config.max_attempts = 3
    /\ Len(attemptLog[1]) = 3
    /\ \A k \in 1 .. 3 : TimedOut(attemptLog[1][k])
    /\ sleepLog[1] = <<1, 2>>

\* The call under way is not stuck: it has returned, or a step of it can
\* be taken.
CallGoesOn == mpc # "idle" => ENABLED WithLock

\* C26 (as claimed): record_metric with a value above the threshold of the
\* metric appends one alert, invokes every registered callback with it and
\* returns; with a value at or below the threshold, or a metric without a
\* threshold, it returns and creates no alert.
C26_RecordMetricAlerts ==
    /\ [](call.op = "record_metric" =>
             /\ CallGoesOn
             /\ ret.kind \in {"pending", "return"})
    /\ [][(call'.op = "record_metric" /\ ret.kind = "pending" /\ ret'.kind = "return") =>
             IF /\ call.metric_name \in DOMAIN alert_thresholds
                /\ call.value > alert_thresholds[call.metric_name]
             THEN /\ alerts' = alerts + 1
                  /\ callback_calls' = callback_calls + alert_callbacks
             ELSE /\ alerts' = alerts
                  /\ callback_calls' = callback_calls]_vars

\* C27 (as claimed): get_performance_summary returns whenever it is called,
\* also after metrics have been recorded, and its metrics_count is the
\* number of distinct metric names recorded so far.
C27_SummaryReturns ==
    call.op = "get_performance_summary" =>
        /\ CallGoesOn
        /\ ret.kind \in {"pending", "return"}
        /\ ret.kind = "return" =>
              ret.value.metrics_count =
                  Cardinality({m \in DOMAIN metrics : metrics[m] > 0})

\* C39 (as claimed): between two consecutive posts of send_message there is
\* exactly one wait, of the backoff step of the attempt before (1, 2, 5,
\* then 5), whatever made the attempt fail, and no wait follows the last
\* post.
C39_OneWaitBetweenPosts ==
    (call.op = "send_message" /\ ret.kind = "return") =>
        /\ Len(ret.waits) = ret.value.posts
        /\ \A k \in 1 .. ret.value.posts :
              ret.waits[k] =
                 IF k = ret.value.posts THEN <<>>
                 ELSE << <<1, 2, 5>>[IF k <= 3 THEN k ELSE 3] >>

\* C35 (as claimed): when execute() has returned, every interface of the
\* batch went the same way, all called inline or all submitted to the
\* pool, and the results are in the order of the input, also when another
\* thread set the concurrency during the dispatch loop.
C35_OnePathInOrder ==
    epc = "returned" =>
        /\ futures = <<>> \/ Len(futures) = N
        /\ \A k \in 1 .. Len(results) : results[k].interface = interfaces[k]

\* What the body of HTTPExecutor.execute can meet on one send: a response,
\* a timeout, a transport error, or any other exception inside its try
\* block, building the request included.
BodyEvents == {"response", "timeout", "connection_error", "bug"}

\* C32: an attempt made by the body of HTTPExecutor.execute comes back
\* with a result and never with an exception: a response with its
\* classification, a timeout as TIMEOUT, a transport error as its kind, any
\* other exception as FAILED / UNKNOWN_ERROR, and after an UNKNOWN_ERROR
\* result the run is over, with no sleep and no further attempt.
C32_AttemptNeverRaises ==
    [][\A i \in Positions :
          (attemptLog'[i] # attemptLog[i] /\ pending[i].ev \in BodyEvents) =>
              LET o == attemptLog'[i][Len(attemptLog'[i])]
              IN  /\ o.kind = "return"
                  /\ o.result.interface = interfaces[i]
                  /\ pending[i].ev = "response" =>
                        /\ o.result.status_code = pending[i].code
                        /\ o.result.status =
                              IF pending[i].code < 400 THEN "SUCCESS" ELSE "FAILED"
                        /\ (pending[i].code < 400) = (o.result.error_type = None)
                  /\ pending[i].ev = "timeout" =>
                        /\ o.result.status = "FAILED"
                        /\ o.result.error_type = TIMEOUT
                  /\ pending[i].ev = "connection_error" =>
                        /\ o.result.status = "FAILED"
                        /\ o.result.error_type = CONNECTION_ERROR
                  /\ pending[i].ev = "bug" =>
                        /\ o.result.status = "FAILED"
                        /\ o.result.status_code = NoCode
                        /\ o.result.error_type = UNKNOWN_ERROR
                  /\ o.result.error_type = UNKNOWN_ERROR =>
                        /\ wpc'[i] = "done"
                        /\ sleepLog'[i] = sleepLog[i]
                        /\ wrapperOutcome'[i] = o]_vars

\* C32 witness: under a max_attempts above 1 the first send met an
\* exception that is no requests exception; the attempt returned FAILED /
\* UNKNOWN_ERROR and the run ended there, without a sleep.
C32_Witness ==
    /\ wrapper_config.max_attempts > 1
    /\ wpc[1] = "done"
    /\ pending[1].ev = "bug"
    /\ Len(attemptLog[1]) = 1
    /\ attemptLog[1][1].kind = "return"
    /\ attemptLog[1][1].result.error_type = UNKNOWN_ERROR
    /\ attemptLog[1][1].result.error_message = BugMessage
    /\ sleepLog[1] = <<>>

\* C33 (as claimed): whatever fails while the response data is captured,
\* the headers or the body, parse_response classifies by the status code
\* alone: below 400 SUCCESS, otherwise FAILED with the kind of the code;
\* only the captured data is smaller.
C33_CaptureKeepsClassification ==
    (call.op = "parse_response_data" /\ ret.kind = "return") =>
        /\ ret.value.status_code = call.response.status_code
        /\ ret.value.status =
              IF call.response.status_code < 400 THEN "SUCCESS" ELSE "FAILED"
        /\ ret.value.error_type =
              CASE call.response.status_code < 400 -> None
                [] call.response.status_code = 404 -> HTTP_404
                [] call.response.status_code = 500 -> HTTP_500
                [] call.response.status_code = 503 -> HTTP_503
        /\ ret.value.response_data \subseteq {"status_code", "headers", "json", "text"}

\* The interface's service has no token: there is no token map, or the
\* map has no entry for the service, or an empty one.
TokenMissing ==
    \/ ~token_map.given
    \/ probe.interface.service \notin DOMAIN token_map.entries
    \/ token_map.entries[probe.interface.service] = ""

\* C31: an interface whose service has no token is probed with the
\* headers it declares and no auth header added, and its result is the
\* classification of what the send met: never an exception, never an
\* UNKNOWN_ERROR result.
C31_MissingTokenIsNoAuth ==
    (probe.pc \in {"send", "done"} /\ TokenMissing) =>
        /\ probe.token \in {None, ""}
        /\ \A h \in {"Authorization", "authorization", "Auth-Token"} :
              /\ h \in DOMAIN dicts[probe.request_headers]
                    <=> h \in DOMAIN dicts[probe.interface.headers]
              /\ h \in DOMAIN dicts[probe.request_headers] =>
                    dicts[probe.request_headers][h] = dicts[probe.interface.headers][h]
        /\ probe.pc = "done" =>
              /\ probe.result.interface = probe.interface.name
              /\ probe.result.status \in {"SUCCESS", "FAILED"}
              /\ probe.result.error_type
                    \in {None, HTTP_404, HTTP_500, TIMEOUT, CONNECTION_ERROR}
              /\ (probe.result.status = "SUCCESS") <=> (probe.result.status_code = 200)

\* C31 witness: a token map with an empty entry for the interface's
\* service and a token for the other one; the probe ended in SUCCESS with
\* no auth header in its request.
C31_Witness ==
    /\ probe.pc = "done"
    /\ token_map.given
    /\ DOMAIN token_map.entries = Services
    /\ token_map.entries[probe.interface.service] = ""
    /\ \E other \in Services : token_map.entries[other] = "abc"
    /\ dicts[probe.interface.headers] = <<>>
    /\ DOMAIN dicts[probe.request_headers] = {"Content-Type", "User-Agent"}
    /\ probe.result.status = "SUCCESS"

\* C34: no step of execute() changes the interface, the dict that holds
\* its headers, or the token map, whatever the token and the outcomes of
\* the sends.
C34_InputsUnchanged ==
    [][probe.pc # "none" =>
          /\ probe'.interface = probe.interface
          /\ dicts'[probe.interface.headers] = dicts[probe.interface.headers]
          /\ token_map' = token_map]_vars

\* C34 witness: the probe was sent three times with a token; each request
\* had a headers dict of its own carrying the bearer value, and the
\* interface's dict holds what it held.
C34_Witness ==
    /\ probe.pc = "done"
    /\ probe.attempts = 2
    /\ probe.token = "abc"
    /\ Len(dicts) = 4
    /\ dicts[1] = <<>>
    /\ probe.request_headers = 4
    /\ dicts[4]["Authorization"] = "Bearer abc"

\* C36 (as claimed): when a refresh of a service's token succeeds, in the
\* auto-refresh worker or in refresh_token(service), the cache holds the
\* TokenInfo the refresh returned, so that the next get_token returns
\* it, and a token that lives longer than the threshold needs no refresh.
C36_RefreshedTokenCached ==
    [][\A s \in Services :
          refreshed'[s] # refreshed[s] =>
              /\ cache'[s] = refreshed'[s]
              /\ cache_get(cache', s, now').token = refreshed'[s].token
              /\ refreshed'[s].expires_at - now' > refresh_threshold =>
                    ~needs_refresh(cache'[s], now')]_vars

\* C37 (as claimed): from the return of start_auto_refresh() on a manager
\* with auto_refresh enabled until stop_auto_refresh() is called, a worker
\* thread is alive, also when the start follows a stop at once.
C37_WorkerKeepsRunning ==
    worker_expected => \E k \in 1 .. Len(refresh_thread) : refresh_thread[k] # "exited"

\* The callers that are inside _refresh_token_internal(s): in
\* refresh_token, or in get_token with force_refresh past its cache check.
CallersRefreshing(s) ==
    {t \in Callers :
        /\ threads[t].service = s
        /\ \/ threads[t].pc \in {"refresh_token", "refresh_token_obtaining"}
           \/ threads[t].pc = "fetch" /\ threads[t].force_refresh}

\* C38 (as claimed): at no time are two refreshes of the same service's
\* token in progress, be it in the worker's pool or in a caller.
C38_OneRefreshPerService ==
    \A s \in Services :
        (IF refresh_jobs[s] \in {"obtaining", "refreshing"} THEN 1 ELSE 0)
            + Cardinality(CallersRefreshing(s)) <= 1

====
